---- MODULE Spec2Model ----
(***************************************************************************)
(* Model of autodict: the strategy registry (AutoDict, a Registry[Meta]),  *)
(* the registration helpers dictable / to_dictable / from_dictable, and    *)
(* the two recursive conversions AutoDict.to_dict and AutoDict.from_dict   *)
(* with embed_class, strip_class, the item recursion and the built-in      *)
(* strategies of autodict/predefined.py.                                   *)
(*                                                                         *)
(* Python values are records [c, s, m]: c is the name of type(value), s    *)
(* the scalar payload (digits of an int, text of a str or path, name of an *)
(* enum member) and m the ordered items: the entries of a dict, the        *)
(* elements of a list, or the __dict__ of an object, as records            *)
(* [key, val] in insertion order.                                          *)
(***************************************************************************)
EXTENDS Integers, Sequences, FiniteSets, TLC

VARIABLES registry, builders, marked, call, heap, threads

vars == <<registry, builders, marked, call, heap, threads>>
threadVars == <<heap, threads>>

-----------------------------------------------------------------------------
(* Bounds of the explored inputs *)

MaxInt == 1
MaxLen == 1
\* the longest attribute name handed to strip_hidden_member_prefix
MaxKey == 6
\* the longest sequence decoded against a tuple type
MaxTuple == 3

-----------------------------------------------------------------------------
(* Values *)

V(c, s, m) == [c |-> c, s |-> s, m |-> m]
Item(k, v) == [key |-> k, val |-> v]

IntNames == <<"1", "2", "3", "4", "5", "6">>
IntV(i) == V("int", IntNames[i], <<>>)
StrV(s) == V("str", s, <<>>)
PathV(s) == V("PosixPath", s, <<>>)
EnumV(c, n) == V(c, n, <<>>)
DictV(m) == V("dict", "", m)
ListV(m) == V("list", "", m)
ObjV(c, m) == V(c, "", m)
\* inspect.Parameter.empty, the class object used as "no default"
EmptyV == V("type", "_empty", <<>>)
NoneV == V("NoneType", "", <<>>)

CLS_ANNO_KEY == "@"

\* isinstance(obj, dict): MyDict is a subclass of dict declared by the program
DictClasses == {"dict", "MyDict"}
IsDict(obj) == obj.c \in DictClasses
IsList(obj) == obj.c = "list"
HasKey(obj, k) == IsDict(obj) /\ \E i \in DOMAIN obj.m : obj.m[i].key = k
KeyIn(m, k) == \E i \in DOMAIN m : m[i].key = k
GetIn(m, k) == m[CHOOSE i \in DOMAIN m : m[i].key = k].val
Get(obj, k) == GetIn(obj.m, k)
DelIn(m, k) == SelectSeq(m, LAMBDA e : e.key # k)
DelKey(obj, k) == [obj EXCEPT !.m = DelIn(obj.m, k)]
\* dict[k] = v: an existing key keeps its position, a new key goes last
SetIn(m, k, v) ==
    IF KeyIn(m, k)
    THEN [i \in DOMAIN m |-> IF m[i].key = k THEN Item(k, v) ELSE m[i]]
    ELSE Append(m, Item(k, v))
SetKey(obj, k, v) == [obj EXCEPT !.m = SetIn(obj.m, k, v)]

-----------------------------------------------------------------------------
(* Results of a call: a value, or a raised exception *)

NoErr == [kind |-> "", name |-> ""]
Ok(v) == [st |-> "ok", val |-> v, err |-> NoErr]
Err(kind, name) == [st |-> "err", val |-> NoneV, err |-> [kind |-> kind, name |-> name]]
UnableToDict(cls) == Err("UnableToDict", cls)
UnableFromDict(cls) == Err("UnableFromDict", cls)

-----------------------------------------------------------------------------
(* Options *)

Options == [recursively : BOOLEAN, strict : BOOLEAN, with_cls : BOOLEAN]
DefaultOptions == [recursively |-> TRUE, strict |-> TRUE, with_cls |-> TRUE]

-----------------------------------------------------------------------------
(* The declared classes of the explored program *)

BuiltinClasses == {"NoneType", "int", "str", "list", "dict", "type"}
PlainClasses == {"A", "B"}
\* General(Dictable, name="SomeF") and
\* Custom(Dictable, to_dict=unable_to_dict, from_dict=unable_from_dict)
DictableSubclasses == {"General", "Custom"}
DataClasses == {"D", "Rec"}
EnumClasses == {"Color"}
PathClasses == {"PosixPath"}
UserClasses == PlainClasses \cup DictableSubclasses \cup DataClasses
                 \cup EnumClasses \cup PathClasses
Classes == BuiltinClasses \cup UserClasses

\* types.is_builtin: the module of the class is builtins, collections or typing
IsBuiltinClass(c) == c \in BuiltinClasses \cup {"tuple", "Any"}
IsDictableSubclass(c) == c \in DictableSubclasses
IsDataclass(c) == c \in DataClasses
IsEnum(c) == c \in EnumClasses

\* the attributes the constructor sets, in order (for a dataclass: its fields)
Fields(c) == IF c = "Rec" THEN <<"a", "o", "s", "f", "os">>
             ELSE IF c \in PlainClasses \cup DictableSubclasses \cup DataClasses
             THEN <<"x">> ELSE <<>>
\* WithField is the dataclass
\*     init_value: int
\*     init_variable: InitVar[int] = 1
\*     post_init_value: int = field(init=False)
\*     default_value: int = 2
\*     class_value: ClassVar[int] = 3
\* whose __post_init__(self, init_variable) sets post_init_value to
\* default_value + init_variable
\* getattr(cls, _FIELDS) in order, and field._field_type, field.init
DeclaredFields(c) ==
    IF c = "WithField"
    THEN <<"init_value", "init_variable", "post_init_value", "default_value", "class_value">>
    ELSE Fields(c)
FieldType(c, f) ==
    CASE c = "WithField" /\ f = "init_variable" -> "_FIELD_INITVAR"
      [] c = "WithField" /\ f = "class_value" -> "_FIELD_CLASSVAR"
      [] OTHER -> "_FIELD"
FieldInit(c, f) == ~(c = "WithField" /\ f = "post_init_value")
\* dataclasses_ext.instance_fields(cls)
instance_fields(c) ==
    SelectSeq(DeclaredFields(c), LAMBDA f : FieldType(c, f) \in {"_FIELD", "_FIELD_INITVAR"})

\* classes that differ in the shape of __init__: P(a=2, b=3), K(*, a=2, b=3),
\* H(p, q) keeping _p and the private __q, HI(H), EmptyInit() setting _p,
\* and NoInit, which declares no __init__
ShapeClasses == {"P", "K", "H", "HI", "EmptyInit", "NoInit"}
\* inspect.signature(cls.__init__).parameters after self; for NoInit this is
\* the signature of object.__init__
Params(c) ==
    CASE c \in {"P", "K"} -> <<"a", "b">>
      [] c \in {"H", "HI"} -> <<"p", "q">>
      [] c = "NoInit" -> <<"args", "kwargs">>
      [] c = "EmptyInit" -> <<>>
      [] c = "WithField" -> SelectSeq(instance_fields(c), LAMBDA f : FieldInit(c, f))
      [] OTHER -> Fields(c)
\* the parameters a call of the class accepts: object() takes no argument
Accepts(c) == IF c = "NoInit" THEN <<>> ELSE Params(c)
\* param.kind
ParamKind(c, p) ==
    CASE c = "K" -> "KEYWORD_ONLY"
      [] c = "NoInit" /\ p = "args" -> "VAR_POSITIONAL"
      [] c = "NoInit" /\ p = "kwargs" -> "VAR_KEYWORD"
      [] OTHER -> "POSITIONAL_OR_KEYWORD"
\* the attribute __init__ stores the parameter in
Stored(c, p) ==
    CASE c \in {"H", "HI"} /\ p = "p" -> "_p"
      [] c \in {"H", "HI"} /\ p = "q" -> "_H__q"
      [] OTHER -> p

EnumMembers(c) == IF c = "Color" THEN <<"Black", "Red">> ELSE <<>>
EnumValue(c, n) == IF n = "Black" THEN IntV(1) ELSE IntV(2)

\* type expressions: no type, a class, or a Union of classes
NoneT == [g |-> "none", args |-> <<>>]
ClsT(c) == [g |-> "cls", args |-> <<c>>]
UnionT(cs) == [g |-> "union", args |-> cs]
IsClsT(t) == t.g = "cls"
ClsOf(t) == t.args[1]

\* typing.get_type_hints(cls).get(field_name)
Annotation(c, f) ==
    IF c = "General" /\ f = "x" THEN ClsT("A")
    ELSE IF c = "D" /\ f = "x" THEN ClsT("int")
    ELSE IF c = "Rec" /\ f \in {"a", "s"} THEN ClsT("int")
    ELSE IF c = "Rec" /\ f \in {"o", "os"} THEN UnionT(<<"int", "NoneType">>)
    ELSE IF c = "Rec" /\ f = "f" THEN ClsT("list")
    ELSE NoneT

\* dataclasses.MISSING
MISSING == V("type", "MISSING", <<>>)
\* field.default: Rec declares s: int = 3 and os: Optional[int] = 3
FieldDefault(c, f) ==
    CASE c = "Rec" /\ f \in {"s", "os"} -> IntV(3)
      [] c = "WithField" /\ f = "init_variable" -> IntV(1)
      [] c = "WithField" /\ f = "default_value" -> IntV(2)
      [] c = "WithField" /\ f = "class_value" -> IntV(3)
      [] OTHER -> MISSING
\* field.default_factory(): Rec declares f: list = field(default_factory=list)
FieldDefaultFactory(c, f) == IF c = "Rec" /\ f = "f" THEN ListV(<<>>) ELSE MISSING

-----------------------------------------------------------------------------
(* The strategy registry *)

NoMeta == [reg |-> FALSE, name |-> "", to_dict |-> "", from_dict |-> ""]
Meta(name, to_dict, from_dict) ==
    [reg |-> TRUE, name |-> name, to_dict |-> to_dict, from_dict |-> from_dict]

Registered(c) == c \in DOMAIN registry /\ registry[c].reg
MetaOf(c) == registry[c]
\* AutoDict.query(name=...): the class registered under the name, or none
QueryHit(name) == \E c \in DOMAIN registry : registry[c].reg /\ registry[c].name = name
Query(name) == CHOOSE c \in DOMAIN registry : registry[c].reg /\ registry[c].name = name

\* dictable(cls, name, to_dict, from_dict); "" stands for an argument left None
DictableEntry(cls, name, to_dict, from_dict) ==
    LET to_dict_ == IF to_dict # "" THEN to_dict
                    ELSE IF IsDataclass(cls) THEN "dataclass_to_dict"
                    ELSE IF IsEnum(cls) THEN "enum_to_dict"
                    ELSE "default_to_dict"
        from_dict_ == IF from_dict # "" THEN from_dict
                      ELSE IF IsDataclass(cls) THEN "dataclass_from_dict"
                      ELSE IF IsEnum(cls) THEN "enum_from_dict"
                      ELSE "default_from_dict"
        name_ == IF name # "" THEN name ELSE cls
    IN Meta(name_, to_dict_, from_dict_)

\* variant of to_dictable that does not look at an existing entry
ToDictableEntry_fresh(cls) ==
    DictableEntry(cls, "", "", "unable_from_dict")

\* to_dictable(cls): keeps the decode half of an existing entry
ToDictableEntry(cls) ==
    LET from_dict == IF Registered(cls)
                     THEN (IF MetaOf(cls).from_dict # "" THEN MetaOf(cls).from_dict
                           ELSE "unable_from_dict")
                     ELSE "unable_from_dict"
    IN DictableEntry(cls, "", "", from_dict)

\* from_dictable(cls): keeps the encode half of an existing entry
FromDictableEntry(cls) ==
    LET to_dict == IF Registered(cls)
                   THEN (IF MetaOf(cls).to_dict # "" THEN MetaOf(cls).to_dict
                         ELSE "unable_to_dict")
                   ELSE "unable_to_dict"
    IN DictableEntry(cls, "", to_dict, "")

\* the registry once the package and the class declarations are imported
InitRegistry ==
    [c \in UserClasses |->
        IF c \in PathClasses THEN Meta(c, "_path_to_dict", "_path_from_dict")
        ELSE IF c = "General" THEN Meta("SomeF", "default_to_dict", "default_from_dict")
        ELSE IF c = "Custom" THEN Meta("Custom", "unable_to_dict", "unable_from_dict")
        ELSE NoMeta]

\* MappingFactory, the registry of mapping builders: nothing registers a
\* builder, so a mapping class is its own constructor
InitBuilders == [c \in {} |-> c]
\* MappingFactory.builder(mapping_cls)
mapping_builder(mapping_cls) ==
    IF mapping_cls \in DOMAIN builders THEN builders[mapping_cls] ELSE mapping_cls
\* the class stable_map builds its result with
StableClass(obj) == IF IsDict(obj) THEN mapping_builder(obj.c) ELSE obj.c

\* the registration calls applied to a class so far: the partial calls in the
\* order of their first application while dictable was never applied to the
\* class, <<"dictable">> once it was (directly, by subclassing Dictable, or
\* on import of the package)
InitMarked ==
    [c \in UserClasses |->
        IF c \in PathClasses \cup DictableSubclasses THEN <<"dictable">> ELSE <<>>]
MarkedAfter(cls, fn) ==
    IF fn = "dictable" \/ marked[cls] = <<"dictable">> THEN <<"dictable">>
    ELSE IF \E i \in DOMAIN marked[cls] : marked[cls][i] = fn THEN marked[cls]
    ELSE Append(marked[cls], fn)

-----------------------------------------------------------------------------
(* Encode strategies *)

\* copy.copy(ins.__dict__)
default_to_dict(ins) == Ok(DictV(ins.m))
enum_to_dict(ins) ==
    Ok(DictV(<<Item("value", EnumValue(ins.c, ins.s)), Item("name", StrV(ins.s))>>))
dataclass_to_dict(ins) ==
    Ok(DictV([i \in DOMAIN Fields(ins.c) |->
                Item(Fields(ins.c)[i], GetIn(ins.m, Fields(ins.c)[i]))]))
_path_to_dict(ins) == Ok(StrV(ins.s))
unable_to_dict(ins) == UnableToDict(ins.c)

ApplyToDict(fn, ins) ==
    CASE fn = "default_to_dict" -> default_to_dict(ins)
      [] fn = "enum_to_dict" -> enum_to_dict(ins)
      [] fn = "dataclass_to_dict" -> dataclass_to_dict(ins)
      [] fn = "_path_to_dict" -> _path_to_dict(ins)
      [] OTHER -> unable_to_dict(ins)

\* embed_class(cls, obj, options)
\* variant of embed_class that never embeds the class name
embed_class_untagged(cls, obj, options) ==
    Ok(obj)

\* variant of embed_class that embeds the class name in place of the name
\* under which the class is registered
embed_class_clsname(cls, obj, options) ==
    IF options.with_cls /\ ~IsBuiltinClass(cls) /\ IsDict(obj)
    THEN IF Registered(cls) \/ IsDataclass(cls) \/ IsEnum(cls)
         THEN Ok(SetKey(obj, CLS_ANNO_KEY, StrV(cls)))
         ELSE UnableToDict(cls)
    ELSE Ok(obj)

embed_class(cls, obj, options) ==
    IF options.with_cls /\ ~IsBuiltinClass(cls) /\ IsDict(obj)
    THEN IF Registered(cls)
         THEN Ok(SetKey(obj, CLS_ANNO_KEY, StrV(MetaOf(cls).name)))
         ELSE IF IsDataclass(cls) \/ IsEnum(cls)
         THEN Ok(SetKey(obj, CLS_ANNO_KEY, StrV(cls)))
         ELSE UnableToDict(cls)
    ELSE Ok(obj)

\* variant of the strategy selection that ignores strict being off
SelectToDict_strictonly(ins, options) ==
    LET cls == ins.c
    IN IF IsDictableSubclass(cls) THEN default_to_dict(ins)
       ELSE IF Registered(cls) THEN ApplyToDict(MetaOf(cls).to_dict, ins)
       ELSE IF IsDataclass(cls) THEN dataclass_to_dict(ins)
       ELSE IF IsEnum(cls) THEN enum_to_dict(ins)
       ELSE IF IsBuiltinClass(cls) THEN Ok(ins)
       ELSE UnableToDict(cls)

\* variant of the strategy selection that ignores strict being on
SelectToDict_lax(ins, options) ==
    LET cls == ins.c
    IN IF IsDictableSubclass(cls) THEN default_to_dict(ins)
       ELSE IF Registered(cls) THEN ApplyToDict(MetaOf(cls).to_dict, ins)
       ELSE IF IsDataclass(cls) THEN dataclass_to_dict(ins)
       ELSE IF IsEnum(cls) THEN enum_to_dict(ins)
       ELSE Ok(ins)

\* the strategy selection of AutoDict.to_dict
\* variant of the strategy selection in which the registry entry of a class
\* comes before its own _to_dict
SelectToDict_registryfirst(ins, options) ==
    LET cls == ins.c
    IN IF Registered(cls) THEN ApplyToDict(MetaOf(cls).to_dict, ins)
       ELSE IF IsDictableSubclass(cls) THEN default_to_dict(ins)
       ELSE IF IsDataclass(cls) THEN dataclass_to_dict(ins)
       ELSE IF IsEnum(cls) THEN enum_to_dict(ins)
       ELSE IF IsBuiltinClass(cls) \/ ~options.strict THEN Ok(ins)
       ELSE UnableToDict(cls)

SelectToDict(ins, options) ==
    LET cls == ins.c
    IN IF IsDictableSubclass(cls) THEN default_to_dict(ins)
       ELSE IF Registered(cls) THEN ApplyToDict(MetaOf(cls).to_dict, ins)
       ELSE IF IsDataclass(cls) THEN dataclass_to_dict(ins)
       ELSE IF IsEnum(cls) THEN enum_to_dict(ins)
       ELSE IF IsBuiltinClass(cls) \/ ~options.strict THEN Ok(ins)
       ELSE UnableToDict(cls)

RECURSIVE to_dict(_, _)
RECURSIVE MapToDict(_, _)

\* stable_map over the items, left to right; the first exception propagates
MapToDict(m, options) ==
    IF m = <<>> THEN [st |-> "ok", m |-> <<>>, err |-> NoErr]
    ELSE LET r == to_dict(Head(m).val, options)
         IN IF r.st = "err" THEN [st |-> "err", m |-> <<>>, err |-> r.err]
            ELSE LET rest == MapToDict(Tail(m), options)
                 IN IF rest.st = "err" THEN rest
                    ELSE [st |-> "ok", m |-> <<Item(Head(m).key, r.val)>> \o rest.m,
                          err |-> NoErr]

\* _items_to_dict: stable_map keeps the container class; other values are returned as is
_items_to_dict(obj, options) ==
    IF IsDict(obj) \/ IsList(obj)
    THEN LET r == MapToDict(obj.m, options)
         IN IF r.st = "err" THEN [st |-> "err", val |-> NoneV, err |-> r.err]
            ELSE Ok([obj EXCEPT !.c = StableClass(obj), !.m = r.m])
    ELSE Ok(obj)

to_dict(ins, options) ==
    LET sel == SelectToDict(ins, options)
    IN IF sel.st = "err" THEN sel
       ELSE LET rec == IF options.recursively THEN _items_to_dict(sel.val, options)
                       ELSE sel
            IN IF rec.st = "err" THEN rec
               ELSE embed_class(ins.c, rec.val, options)

-----------------------------------------------------------------------------
(* Decode strategies *)

\* cls.__name__ and an attribute name as sequences of characters; a name that
\* is not spelled out here is one symbol that is not "_"
NameChars(c) ==
    CASE c = "H" -> <<"H">>
      [] c = "HI" -> <<"H", "I">>
      [] c = "I" -> <<"I">>
      [] c = "IH" -> <<"I", "H">>
      [] OTHER -> <<c>>
HiddenKeys == {"_p", "_H__q", "_I__q", "I__q", "H__q"}
KeyChars(k) ==
    CASE k = "_p" -> <<"_", "p">>
      [] k = "_H__q" -> <<"_", "H", "_", "_", "q">>
      [] k = "_I__q" -> <<"_", "I", "_", "_", "q">>
      [] k = "I__q" -> <<"I", "_", "_", "q">>
      [] k = "H__q" -> <<"H", "_", "_", "q">>
      [] OTHER -> <<k>>
KeyStr(chars) ==
    IF Len(chars) = 1 THEN chars[1] ELSE CHOOSE k \in HiddenKeys : KeyChars(k) = chars
\* cls.__bases__
Bases(c) ==
    CASE c = "object" -> <<>>
      [] c = "HI" -> <<"H">>
      [] c = "IH" -> <<"I", "H">>
      [] OTHER -> <<"object">>

\* str.startswith and the test '__' in key
StartsWith(key, prefix) ==
    Len(prefix) <= Len(key) /\ SubSeq(key, 1, Len(prefix)) = prefix
HasDunder(key) == \E i \in 1..(Len(key) - 1) : key[i] = "_" /\ key[i + 1] = "_"
HiddenPrefix(c) == <<"_">> \o NameChars(c) \o <<"_", "_">>

\* variant of strip_hidden_member_prefix that does not look at the base classes
strip_hidden_member_prefix_own(cls, key) ==
    IF ~StartsWith(key, <<"_">>) THEN key
    ELSE IF HasDunder(key) /\ StartsWith(key, HiddenPrefix(cls))
    THEN SubSeq(key, Len(HiddenPrefix(cls)) + 1, Len(key))
    ELSE Tail(key)

RECURSIVE strip_hidden_member_prefix(_, _)
RECURSIVE StripInBases(_, _)
\* the loop over cls.__bases__: the first base whose result is shorter than
\* the key without its first character
StripInBases(bases, key) ==
    IF bases = <<>> THEN [found |-> FALSE, key |-> key]
    ELSE LET strip_key == strip_hidden_member_prefix(Head(bases), key)
         IN IF Len(strip_key) + 1 < Len(key) THEN [found |-> TRUE, key |-> strip_key]
            ELSE StripInBases(Tail(bases), key)

\* types.strip_hidden_member_prefix on an attribute name given by its characters
strip_hidden_member_prefix(cls, key) ==
    IF ~StartsWith(key, <<"_">>) THEN key
    ELSE IF HasDunder(key)
    THEN IF StartsWith(key, HiddenPrefix(cls))
         THEN SubSeq(key, Len(HiddenPrefix(cls)) + 1, Len(key))
         ELSE LET r == StripInBases(Bases(cls), key)
              IN IF r.found THEN r.key ELSE Tail(key)
    ELSE Tail(key)

\* strip_hidden_member_prefix on the key of a tree
StripKey(cls, key) == KeyStr(strip_hidden_member_prefix(cls, KeyChars(key)))

\* param.default: inspect.Parameter.empty when the parameter declares none
ParamDefault(c, p) ==
    CASE c \in {"P", "K"} /\ p = "a" -> IntV(2)
      [] c \in {"P", "K"} /\ p = "b" -> IntV(3)
      [] c = "WithField" /\ FieldDefault(c, p) # MISSING -> FieldDefault(c, p)
      [] OTHER -> EmptyV
\* the attributes __init__ sets by itself
InitAttrs(c) == IF c = "EmptyInit" THEN <<Item("_p", IntV(2))>> ELSE <<>>

\* int.__add__
IntSum(a, b) ==
    IntV((CHOOSE i \in DOMAIN IntNames : IntNames[i] = a.s)
         + (CHOOSE i \in DOMAIN IntNames : IntNames[i] = b.s))
\* __post_init__(self, init_variable) on the attributes __init__ has set
post_init(cls, m, init_variable) ==
    IF cls = "WithField"
    THEN SetIn(m, "post_init_value", IntSum(GetIn(m, "default_value"), init_variable))
    ELSE m

\* cls(*positional, **keyword): binds the arguments to the parameters of
\* __init__, which stores each parameter in its attribute
Construct(cls, positional, keyword) ==
    LET ps == Accepts(cls)
        pos == SelectSeq(ps, LAMBDA p : ParamKind(cls, p) # "KEYWORD_ONLY")
        n == Len(positional)
        byPosition == {pos[i] : i \in 1..n}
        index(p) == CHOOSE i \in 1..n : pos[i] = p
        names == {ps[i] : i \in DOMAIN ps}
    IN IF n > Len(pos) THEN Err("TypeError", cls)
       ELSE IF \E j \in DOMAIN keyword :
                  keyword[j].key \notin names \/ keyword[j].key \in byPosition
       THEN Err("TypeError", cls)
       ELSE IF \E p \in names \ byPosition :
                  ~KeyIn(keyword, p) /\ ParamDefault(cls, p) = EmptyV
       THEN Err("TypeError", cls)
       ELSE LET bound(p) == IF p \in byPosition THEN positional[index(p)]
                            ELSE IF KeyIn(keyword, p) THEN GetIn(keyword, p)
                            ELSE ParamDefault(cls, p)
                kept == SelectSeq(ps, LAMBDA p : FieldType(cls, p) # "_FIELD_INITVAR")
                set == InitAttrs(cls) \o [i \in DOMAIN kept |->
                                            Item(Stored(cls, kept[i]), bound(kept[i]))]
            IN Ok(ObjV(cls, post_init(cls, set, bound("init_variable"))))

RECURSIVE UpdateIn(_, _)
\* dict.update(items)
UpdateIn(m, items) ==
    IF items = <<>> THEN m
    ELSE UpdateIn(SetIn(m, Head(items).key, Head(items).val), Tail(items))

\* list.extend(value) and dict.update(value) for the value of a *args or
\* **kwargs parameter
Extended(value) ==
    IF IsList(value) THEN Ok([i \in DOMAIN value.m |-> value.m[i].val])
    ELSE IF IsDict(value) THEN Ok([i \in DOMAIN value.m |-> StrV(value.m[i].key)])
    ELSE Err("TypeError", "extend")
Updated(value) ==
    IF IsDict(value) THEN Ok(value.m)
    ELSE IF IsList(value) /\ value.m = <<>> THEN Ok(<<>>)
    ELSE Err("TypeError", "update")

\* cand_param_values: the last item whose stripped key is the name p
HasCand(cls, obj, p) == \E i \in DOMAIN obj.m : StripKey(cls, obj.m[i].key) = p
Cand(cls, obj, p) ==
    obj.m[CHOOSE i \in DOMAIN obj.m :
            /\ StripKey(cls, obj.m[i].key) = p
            /\ \A j \in DOMAIN obj.m : StripKey(cls, obj.m[j].key) = p => j <= i]

\* one turn of the loop over sig.parameters of default_from_dict: cand is the
\* candidate item of the parameter p, if the tree has one
CaptureParam(cls, p, kind, has, cand, acc) ==
    IF ~has THEN [acc EXCEPT !.keyword = SetIn(@, p, ParamDefault(cls, p))]
    ELSE CASE kind = "POSITIONAL_OR_KEYWORD" ->
                [acc EXCEPT !.names = @ \cup {cand.key}, !.positional = Append(@, cand.val)]
           [] kind = "KEYWORD_ONLY" ->
                [acc EXCEPT !.names = @ \cup {cand.key}, !.keyword = SetIn(@, p, cand.val)]
           [] kind = "VAR_POSITIONAL" /\ Extended(cand.val).st = "err" ->
                [acc EXCEPT !.st = "err", !.err = Extended(cand.val).err]
           [] kind = "VAR_POSITIONAL" /\ Extended(cand.val).st = "ok" ->
                [acc EXCEPT !.names = @ \cup {cand.key},
                            !.positional = @ \o Extended(cand.val).val]
           [] kind = "VAR_KEYWORD" /\ Updated(cand.val).st = "err" ->
                [acc EXCEPT !.st = "err", !.err = Updated(cand.val).err]
           [] kind = "VAR_KEYWORD" /\ Updated(cand.val).st = "ok" ->
                [acc EXCEPT !.names = @ \cup {cand.key},
                            !.keyword = UpdateIn(@, Updated(cand.val).val)]

RECURSIVE CaptureParams(_, _, _, _)
\* the loop over sig.parameters of default_from_dict
CaptureParams(cls, obj, ps, acc) ==
    IF ps = <<>> \/ acc.st = "err" THEN acc
    ELSE CaptureParams(cls, obj, Tail(ps),
            CaptureParam(cls, Head(ps), ParamKind(cls, Head(ps)), HasCand(cls, obj, Head(ps)),
                         IF HasCand(cls, obj, Head(ps)) THEN Cand(cls, obj, Head(ps))
                         ELSE Item("", NoneV),
                         acc))

\* ins.__dict__.update(post_init_values) on the outcome of the constructor
UpdateInstance(ins, post_init_values) ==
    IF ins.st = "err" THEN ins
    ELSE Ok([ins.val EXCEPT !.m = UpdateIn(@, post_init_values)])

\* the construction from the captured arguments, and the fields that are not
\* in the parameter list of __init__
ConstructCaptured(cls, obj, captured) ==
    IF captured.st = "err" THEN [st |-> "err", val |-> NoneV, err |-> captured.err]
    ELSE UpdateInstance(Construct(cls, captured.positional, captured.keyword),
                        SelectSeq(obj.m, LAMBDA e : e.key \notin captured.names))

default_from_dict(cls, obj) ==
    IF ~IsDict(obj) THEN Err("AttributeError", "items")
    ELSE ConstructCaptured(cls, obj,
            CaptureParams(cls, obj, Params(cls),
                          [st |-> "ok", err |-> NoErr, positional |-> <<>>,
                           keyword |-> <<>>, names |-> {}]))

\* cls(enum_value): the member with that value, or ValueError
EnumByValueHit(cls, v) == \E i \in DOMAIN EnumMembers(cls) : EnumValue(cls, EnumMembers(cls)[i]) = v
EnumByValue(cls, v) ==
    EnumMembers(cls)[CHOOSE i \in DOMAIN EnumMembers(cls) : EnumValue(cls, EnumMembers(cls)[i]) = v]

\* variant: the member is chosen by the tree's name, the value is not looked at
enum_from_dict_byname(cls, obj) ==
    IF ~IsDict(obj) THEN Err("TypeError", "name")
    ELSE IF ~KeyIn(obj.m, "name") THEN Err("KeyError", "name")
    ELSE Ok(EnumV(cls, Get(obj, "name").s))

enum_from_dict(cls, obj) ==
    IF ~IsDict(obj) THEN Err("TypeError", "name")
    ELSE IF ~KeyIn(obj.m, "name") THEN Err("KeyError", "name")
    ELSE IF ~KeyIn(obj.m, "value") THEN Err("KeyError", "value")
    ELSE LET enum_name == Get(obj, "name")
             enum_value == Get(obj, "value")
         IN IF ~EnumByValueHit(cls, enum_value) THEN Err("ValueError", cls)
            ELSE IF StrV(EnumByValue(cls, enum_value)) # enum_name
            THEN Err("AssertionError", cls)
            ELSE Ok(EnumV(cls, EnumByValue(cls, enum_value)))

\* types.is_generic_union, types.is_generic_optional
is_generic_union(t) == t.g = "union"
is_generic_optional(t) ==
    is_generic_union(t) /\ \E i \in DOMAIN t.args : t.args[i] = "NoneType"

\* variant of default_value that asks for Optional before the declared defaults
default_value_optfirst(cls, field) ==
    IF is_generic_optional(Annotation(cls, field)) THEN Ok(NoneV)
    ELSE IF FieldDefault(cls, field) # MISSING THEN Ok(FieldDefault(cls, field))
    ELSE IF FieldDefaultFactory(cls, field) # MISSING THEN Ok(FieldDefaultFactory(cls, field))
    ELSE Err("RuntimeError", field)

\* dataclasses_ext.default_value(field)
default_value(cls, field) ==
    IF FieldDefault(cls, field) # MISSING THEN Ok(FieldDefault(cls, field))
    ELSE IF FieldDefaultFactory(cls, field) # MISSING THEN Ok(FieldDefaultFactory(cls, field))
    ELSE IF is_generic_optional(Annotation(cls, field)) THEN Ok(NoneV)
    ELSE Err("RuntimeError", field)

RECURSIVE DataclassFieldValues(_, _, _)
\* the loop of dataclass_from_dict over instance_fields(cls)
DataclassFieldValues(cls, fields, obj) ==
    IF fields = <<>> THEN [st |-> "ok", m |-> <<>>, err |-> NoErr]
    ELSE LET f == Head(fields)
             v == IF IsDict(obj)
                  THEN (IF KeyIn(obj.m, f) THEN Ok(Get(obj, f)) ELSE default_value(cls, f))
                  ELSE IF IsList(obj)
                  THEN (IF \E i \in DOMAIN obj.m : obj.m[i].val = StrV(f)
                        THEN Err("TypeError", f) ELSE default_value(cls, f))
                  ELSE IF obj.c = "str"
                  THEN (IF obj.s = f THEN Err("TypeError", f) ELSE default_value(cls, f))
                  ELSE Err("TypeError", f)
         IN IF v.st = "err" THEN [st |-> "err", m |-> <<>>, err |-> v.err]
            ELSE LET rest == DataclassFieldValues(cls, Tail(fields), obj)
                 IN IF rest.st = "err" THEN rest
                    ELSE [st |-> "ok", m |-> <<Item(f, v.val)>> \o rest.m, err |-> NoErr]

\* NT is namedtuple("NT", "a b c d", defaults=(2, [3], [])): cls._fields and
\* cls._field_defaults, with None for a field that has no entry
NamedtupleFields(c) == IF c = "NT" THEN <<"a", "b", "c", "d">> ELSE <<>>
HasFieldDefault(c, f) == c = "NT" /\ f \in {"b", "c", "d"}
NamedtupleDefault(c, f) ==
    CASE c = "NT" /\ f = "b" -> IntV(2)
      [] c = "NT" /\ f = "c" -> ListV(<<Item("", IntV(3))>>)
      [] c = "NT" /\ f = "d" -> ListV(<<>>)
      [] OTHER -> NoneV

\* bool(value)
Truthy(value) ==
    CASE value.c = "NoneType" -> FALSE
      [] value.c \in {"list", "dict"} -> value.m # <<>>
      [] value.c = "str" -> value.s # ""
      [] OTHER -> TRUE
\* NamedtupleField.get_default: self.default[0] if self.default else None
get_default(default) ==
    IF ~Truthy(default) THEN Ok(NoneV)
    ELSE IF IsList(default) THEN Ok(default.m[1].val)
    ELSE IF IsDict(default) THEN Err("KeyError", "0")
    ELSE Err("TypeError", "subscript")

\* cls(*init_values) of a namedtuple
ConstructNamedtuple(cls, init_values) ==
    LET fields == NamedtupleFields(cls)
        n == Len(init_values)
    IN IF n > Len(fields) THEN Err("TypeError", cls)
       ELSE IF \E i \in (n + 1)..Len(fields) : ~HasFieldDefault(cls, fields[i])
       THEN Err("TypeError", cls)
       ELSE Ok(ObjV(cls, [i \in DOMAIN fields |->
                Item(fields[i], IF i <= n THEN init_values[i]
                                ELSE NamedtupleDefault(cls, fields[i]))]))

RECURSIVE NamedtupleValues(_, _, _)
\* the loop of namedtuple_from_dict over namedtuple_ext.instance_fields(cls)
NamedtupleValues(cls, fields, obj) ==
    IF fields = <<>> THEN Ok(<<>>)
    ELSE LET f == Head(fields)
             v == IF KeyIn(obj.m, f) THEN Ok(Get(obj, f))
                  ELSE get_default(NamedtupleDefault(cls, f))
         IN IF v.st = "err" THEN v
            ELSE LET rest == NamedtupleValues(cls, Tail(fields), obj)
                 IN IF rest.st = "err" THEN rest ELSE Ok(<<v.val>> \o rest.val)

ConstructFrom(cls, init_values) ==
    IF init_values.st = "err" THEN [init_values EXCEPT !.val = NoneV]
    ELSE ConstructNamedtuple(cls, init_values.val)

namedtuple_from_dict(cls, obj) ==
    ConstructFrom(cls, IF IsDict(obj) THEN NamedtupleValues(cls, NamedtupleFields(cls), obj)
                       ELSE IF IsList(obj) THEN Ok([i \in DOMAIN obj.m |-> obj.m[i].val])
                       ELSE Err("TypeError", "list"))

\* cls(**init_values), then instance.__dict__.update(**post_init_values): the
\* tail of dataclass_from_dict, which is dataclasses_ext.instantiate
instantiate(cls, init_values, post_init_values) ==
    UpdateInstance(Construct(cls, <<>>, init_values), post_init_values)

\* the split of the field values on field.init
InstantiateFields(cls, values) ==
    IF values.st = "err" THEN [st |-> "err", val |-> NoneV, err |-> values.err]
    ELSE instantiate(cls, SelectSeq(values.m, LAMBDA e : FieldInit(cls, e.key)),
                     SelectSeq(values.m, LAMBDA e : ~FieldInit(cls, e.key)))
\* variant of the split that hands every field value to the constructor
InstantiateFields_allinit(cls, values) ==
    IF values.st = "err" THEN [st |-> "err", val |-> NoneV, err |-> values.err]
    ELSE instantiate(cls, values.m, <<>>)

\* variant of dataclass_from_dict that hands every field value to the constructor
dataclass_from_dict_allinit(cls, obj) ==
    InstantiateFields_allinit(cls, DataclassFieldValues(cls, instance_fields(cls), obj))

dataclass_from_dict(cls, obj) ==
    InstantiateFields(cls, DataclassFieldValues(cls, instance_fields(cls), obj))

\* cls(path) of pathlib
_path_from_dict(cls, obj) ==
    IF obj.c = "str" THEN Ok(PathV(obj.s))
    ELSE IF obj.c \in PathClasses THEN Ok(obj)
    ELSE Err("TypeError", cls)

\* variant of unable_from_dict that hands the mapping back
unable_from_dict_silent(cls, obj) == Ok(obj)

unable_from_dict(cls, obj) == UnableFromDict(cls)

ApplyFromDict(fn, cls, obj) ==
    CASE fn = "default_from_dict" -> default_from_dict(cls, obj)
      [] fn = "enum_from_dict" -> enum_from_dict(cls, obj)
      [] fn = "dataclass_from_dict" -> dataclass_from_dict(cls, obj)
      [] fn = "_path_from_dict" -> _path_from_dict(cls, obj)
      [] OTHER -> unable_from_dict(cls, obj)

-----------------------------------------------------------------------------
(* AutoDict.from_dict *)

\* Results of from_dict also carry inp, the caller's input tree as the call
\* leaves it (strip_class deletes keys in place), and log, the calls made:
\* an "enter" event per from_dict call and a "strategy" event per decode
\* strategy invoked, with tag telling whether the mapping it got holds "@".
Ev(ev, cls, fn, tag) == [ev |-> ev, cls |-> cls, fn |-> fn, tag |-> tag]
FR(st, val, err, inp, log) == [st |-> st, val |-> val, err |-> err, inp |-> inp, log |-> log]
TypeName(t) ==
    CASE t.g = "none" -> ""
      [] t.g = "cls" -> ClsOf(t)
      [] t.g = "tuple" -> "Tuple"
      [] OTHER -> "Union"

\* types.is_builtin of a type expression: typing constructs live in module typing
is_builtin(t) == t.g \in {"union", "tuple"} \/ (IsClsT(t) /\ IsBuiltinClass(ClsOf(t)))
\* types.is_annotated_class
is_annotated_class(t) == IsClsT(t) /\ ClsOf(t) \in {"General", "D", "Rec"}

\* variant of strip_class in which a given candidate wins over the tag
strip_class_candfirst(obj, cand_cls, options) ==
    IF ~HasKey(obj, CLS_ANNO_KEY)
    THEN [st |-> "ok", cls |-> cand_cls, obj |-> obj, err |-> NoErr]
    ELSE LET cls_name == Get(obj, CLS_ANNO_KEY).s
         IN IF ~QueryHit(cls_name)
            THEN IF cand_cls = NoneT /\ options.strict
                 THEN [st |-> "err", cls |-> cand_cls, obj |-> obj,
                       err |-> [kind |-> "UnableFromDict", name |-> cls_name]]
                 ELSE [st |-> "ok", cls |-> cand_cls, obj |-> obj, err |-> NoErr]
            ELSE [st |-> "ok", cls |-> IF cand_cls # NoneT THEN cand_cls ELSE ClsT(Query(cls_name)),
                  obj |-> DelKey(obj, CLS_ANNO_KEY), err |-> NoErr]

\* variant of strip_class in which a Union candidate wins over the tag
strip_class_keepunion(obj, cand_cls, options) ==
    IF ~HasKey(obj, CLS_ANNO_KEY)
    THEN [st |-> "ok", cls |-> cand_cls, obj |-> obj, err |-> NoErr]
    ELSE LET cls_name == Get(obj, CLS_ANNO_KEY).s
         IN IF ~QueryHit(cls_name)
            THEN IF cand_cls = NoneT /\ options.strict
                 THEN [st |-> "err", cls |-> cand_cls, obj |-> obj,
                       err |-> [kind |-> "UnableFromDict", name |-> cls_name]]
                 ELSE [st |-> "ok", cls |-> cand_cls, obj |-> obj, err |-> NoErr]
            ELSE [st |-> "ok", cls |-> IF is_generic_union(cand_cls) THEN cand_cls ELSE ClsT(Query(cls_name)),
                  obj |-> DelKey(obj, CLS_ANNO_KEY), err |-> NoErr]

\* variant of strip_class that never raises on an unresolvable tag
strip_class_lenient(obj, cand_cls, options) ==
    IF ~HasKey(obj, CLS_ANNO_KEY)
    THEN [st |-> "ok", cls |-> cand_cls, obj |-> obj, err |-> NoErr]
    ELSE LET cls_name == Get(obj, CLS_ANNO_KEY).s
         IN IF ~QueryHit(cls_name)
            THEN IF cand_cls = NoneT /\ options.strict
                 THEN [st |-> "ok", cls |-> cand_cls, obj |-> obj, err |-> NoErr]
                 ELSE [st |-> "ok", cls |-> cand_cls, obj |-> obj, err |-> NoErr]
            ELSE [st |-> "ok", cls |-> ClsT(Query(cls_name)),
                  obj |-> DelKey(obj, CLS_ANNO_KEY), err |-> NoErr]

\* variant of strip_class that deletes the tag whether it resolves or not
strip_class_alwaysdel(obj, cand_cls, options) ==
    IF ~HasKey(obj, CLS_ANNO_KEY)
    THEN [st |-> "ok", cls |-> cand_cls, obj |-> obj, err |-> NoErr]
    ELSE LET cls_name == Get(obj, CLS_ANNO_KEY).s
         IN IF ~QueryHit(cls_name)
            THEN IF cand_cls = NoneT /\ options.strict
                 THEN [st |-> "err", cls |-> cand_cls, obj |-> obj,
                       err |-> [kind |-> "UnableFromDict", name |-> cls_name]]
                 ELSE [st |-> "ok", cls |-> cand_cls, obj |-> DelKey(obj, CLS_ANNO_KEY), err |-> NoErr]
            ELSE [st |-> "ok", cls |-> ClsT(Query(cls_name)),
                  obj |-> DelKey(obj, CLS_ANNO_KEY), err |-> NoErr]

\* variant of strip_class that raises on an unresolvable tag whenever strict is
\* on, with or without a candidate
strip_class_strictalways(obj, cand_cls, options) ==
    IF ~HasKey(obj, CLS_ANNO_KEY)
    THEN [st |-> "ok", cls |-> cand_cls, obj |-> obj, err |-> NoErr]
    ELSE LET cls_name == Get(obj, CLS_ANNO_KEY).s
         IN IF ~QueryHit(cls_name)
            THEN IF options.strict
                 THEN [st |-> "err", cls |-> cand_cls, obj |-> obj,
                       err |-> [kind |-> "UnableFromDict", name |-> cls_name]]
                 ELSE [st |-> "ok", cls |-> cand_cls, obj |-> obj, err |-> NoErr]
            ELSE [st |-> "ok", cls |-> ClsT(Query(cls_name)),
                  obj |-> DelKey(obj, CLS_ANNO_KEY), err |-> NoErr]

\* strip_class(obj, cand_cls, options): the class to decode against and the
\* input as it is left
strip_class(obj, cand_cls, options) ==
    IF ~HasKey(obj, CLS_ANNO_KEY)
    THEN [st |-> "ok", cls |-> cand_cls, obj |-> obj, err |-> NoErr]
    ELSE LET cls_name == Get(obj, CLS_ANNO_KEY).s
         IN IF ~QueryHit(cls_name)
            THEN IF cand_cls = NoneT /\ options.strict
                 THEN [st |-> "err", cls |-> cand_cls, obj |-> obj,
                       err |-> [kind |-> "UnableFromDict", name |-> cls_name]]
                 ELSE [st |-> "ok", cls |-> cand_cls, obj |-> obj, err |-> NoErr]
            ELSE [st |-> "ok", cls |-> ClsT(Query(cls_name)),
                  obj |-> DelKey(obj, CLS_ANNO_KEY), err |-> NoErr]

\* the strategy selection of AutoDict.from_dict; fn names the strategy used
DecodeWith(cls, obj, options) ==
    LET c == IF IsClsT(cls) THEN ClsOf(cls) ELSE ""
        with(r, fn) == [st |-> r.st, val |-> r.val, err |-> r.err, fn |-> fn]
    IN IF IsClsT(cls) /\ IsDictableSubclass(c)
       THEN with(default_from_dict(c, obj), "_from_dict")
       ELSE IF IsClsT(cls) /\ Registered(c)
       THEN with(ApplyFromDict(MetaOf(c).from_dict, c, obj), MetaOf(c).from_dict)
       ELSE IF IsClsT(cls) /\ IsDataclass(c)
       THEN with(dataclass_from_dict(c, obj), "dataclass_from_dict")
       ELSE IF IsClsT(cls) /\ IsEnum(c)
       THEN with(enum_from_dict(c, obj), "enum_from_dict")
       ELSE IF cls = NoneT \/ is_builtin(cls) \/ ~options.strict
       THEN with(Ok(obj), "")
       ELSE with(UnableFromDict(c), "")

RECURSIVE from_dict(_, _, _)
RECURSIVE _items_from_dict(_, _, _)
RECURSIVE MapFromDict(_, _, _)
RECURSIVE UnionLoop(_, _, _, _, _, _, _)
RECURSIVE ZipFromDict(_, _, _)

\* Tuple[args], the arguments being class names, typing.Any or the Ellipsis;
\* Tuple without arguments is TupleT(<<>>)
TupleT(args) == [g |-> "tuple", args |-> args]
TupleV(m) == V("tuple", "", m)
is_generic_collection(cls) == cls.g = "tuple"
\* inspect_generic_templ_args(cls, defaults)
inspect_generic_templ_args(cls, defaults) == IF cls.args = <<>> THEN defaults ELSE cls.args

\* data_cls(from_dict(item, item_cls) for item, item_cls in zip(obj, item_classes)):
\* the pairs are decoded left to right until either side runs out
ZipFromDict(m, item_classes, options) ==
    IF m = <<>> \/ item_classes = <<>>
    THEN [st |-> "ok", m |-> <<>>, err |-> NoErr, inp |-> m, log |-> <<>>]
    ELSE LET e == Head(m)
             r == from_dict(e.val, ClsT(Head(item_classes)), options)
         IN IF r.st = "err"
            THEN [st |-> "err", m |-> <<>>, err |-> r.err,
                  inp |-> <<Item(e.key, r.inp)>> \o Tail(m), log |-> r.log]
            ELSE LET rest == ZipFromDict(Tail(m), Tail(item_classes), options)
                 IN [st |-> rest.st,
                     m |-> IF rest.st = "err" THEN <<>> ELSE <<Item(e.key, r.val)>> \o rest.m,
                     err |-> rest.err,
                     inp |-> <<Item(e.key, r.inp)>> \o rest.inp,
                     log |-> r.log \o rest.log]

\* item_classes: a (T, ...) argument list is stretched to the length n
ItemClasses(declared, n) ==
    IF Len(declared) = 2 /\ declared[2] = "..." THEN [i \in 1..n |-> declared[1]]
    ELSE declared
\* the result of the tuple branch from the decoding r of the pairs
TupleResult(obj, r) ==
    FR(r.st, IF r.st = "ok" THEN TupleV(r.m) ELSE NoneV, r.err,
       IF IsDict(obj) THEN obj ELSE [obj EXCEPT !.m = r.inp], r.log)
\* iter(obj): iterating a mapping yields its keys
Iterated(obj) ==
    IF IsDict(obj) THEN [i \in DOMAIN obj.m |-> Item("", StrV(obj.m[i].key))] ELSE obj.m

\* the tuple branch of _items_from_dict_generic_collection; a number cannot
\* be iterated
_items_from_dict_generic_collection(obj, cls, options) ==
    IF ~(IsList(obj) \/ IsDict(obj) \/ obj.c = "tuple")
    THEN FR("err", NoneV, [kind |-> "TypeError", name |-> "iter"], obj, <<>>)
    ELSE TupleResult(obj,
            ZipFromDict(Iterated(obj),
                        ItemClasses(inspect_generic_templ_args(cls, <<"Any", "...">>),
                                    Len(obj.m)),
                        options))

\* stable_map over the items with from_dict; cls is the class whose
\* annotations type the fields, or "" when the items have no declared type
MapFromDict(m, cls, options) ==
    IF m = <<>> THEN [st |-> "ok", m |-> <<>>, err |-> NoErr, inp |-> <<>>, log |-> <<>>]
    ELSE LET e == Head(m)
             r == from_dict(e.val, IF cls = "" THEN NoneT ELSE Annotation(cls, e.key), options)
         IN IF r.st = "err"
            THEN [st |-> "err", m |-> <<>>, err |-> r.err,
                  inp |-> <<Item(e.key, r.inp)>> \o Tail(m), log |-> r.log]
            ELSE LET rest == MapFromDict(Tail(m), cls, options)
                 IN [st |-> rest.st,
                     m |-> IF rest.st = "err" THEN <<>> ELSE <<Item(e.key, r.val)>> \o rest.m,
                     err |-> rest.err,
                     inp |-> <<Item(e.key, r.inp)>> \o rest.inp,
                     log |-> r.log \o rest.log]

\* the candidate loop of _items_from_dict_generic_non_collection: obj is the
\* loop variable, same tells whether it still is the caller's object, orig is
\* the caller's object as left so far, found is cand_objects
UnionLoop(cands, obj, same, orig, found, log, options) ==
    IF cands = <<>> THEN [found |-> found, inp |-> orig, log |-> log]
    ELSE LET cand_cls == Head(cands)
         IN IF IsBuiltinClass(cand_cls) /\ obj.c # cand_cls
            THEN UnionLoop(Tail(cands), obj, same, orig, found, log, options)
            ELSE LET r == from_dict(obj, ClsT(cand_cls), options)
                     orig2 == IF same THEN r.inp ELSE orig
                 IN IF r.st = "ok"
                    THEN UnionLoop(Tail(cands), r.val, FALSE, orig2,
                                   Append(found, Item(cand_cls, r.val)),
                                   log \o r.log, options)
                    ELSE UnionLoop(Tail(cands), r.inp, same, orig2, found,
                                   log \o r.log, options)

_items_from_dict_generic_non_collection(obj, cls, options) ==
    LET l == UnionLoop(cls.args, obj, TRUE, obj, <<>>, <<>>, options)
    IN IF Len(l.found) > 1
       THEN FR("err", NoneV, [kind |-> "ValueError", name |-> "Multiple union type matched"],
               l.inp, l.log)
       ELSE IF Len(l.found) = 0
       THEN FR("err", NoneV, [kind |-> "KeyError", name |-> "popitem"], l.inp, l.log)
       ELSE FR("ok", l.found[1].val, NoErr, l.inp, l.log)

\* stable_map(obj, mapper) of the decode direction
StableMapFromDict(obj, cls, options) ==
    IF IsDict(obj) \/ IsList(obj)
    THEN LET r == MapFromDict(obj.m, cls, options)
         IN FR(r.st,
               IF r.st = "ok" THEN [obj EXCEPT !.c = StableClass(obj), !.m = r.m] ELSE NoneV,
               r.err,
               [obj EXCEPT !.m = r.inp], r.log)
    ELSE FR("ok", obj, NoErr, obj, <<>>)

_items_from_dict(obj, cls, options) ==
    IF IsClsT(cls) /\ (IsDataclass(ClsOf(cls)) \/ is_annotated_class(cls))
    THEN StableMapFromDict(obj, ClsOf(cls), options)
    ELSE IF is_generic_collection(cls)
    THEN _items_from_dict_generic_collection(obj, cls, options)
    ELSE IF is_generic_union(cls)
    THEN _items_from_dict_generic_non_collection(obj, cls, options)
    ELSE StableMapFromDict(obj, "", options)

\* variant of from_dict that hands the items to the strategy as they are
from_dict_flat(obj, cls, options) ==
    LET sc == strip_class(obj, cls, options)
        enter == <<Ev("enter", TypeName(cls), "", HasKey(obj, CLS_ANNO_KEY))>>
    IN IF sc.st = "err" THEN FR("err", NoneV, sc.err, obj, enter)
       ELSE LET r == DecodeWith(sc.cls, sc.obj, options)
                ev == IF r.fn = "" THEN <<>>
                      ELSE <<Ev("strategy", TypeName(sc.cls), r.fn,
                                HasKey(sc.obj, CLS_ANNO_KEY))>>
            IN FR(r.st, r.val, r.err, sc.obj, enter \o ev)

from_dict(obj, cls, options) ==
    LET sc == strip_class(obj, cls, options)
        enter == <<Ev("enter", TypeName(cls), "", HasKey(obj, CLS_ANNO_KEY))>>
    IN IF sc.st = "err" THEN FR("err", NoneV, sc.err, obj, enter)
       ELSE LET it == IF options.recursively THEN _items_from_dict(sc.obj, sc.cls, options)
                      ELSE FR("ok", sc.obj, NoErr, sc.obj, <<>>)
            IN IF it.st = "err" THEN FR("err", NoneV, it.err, it.inp, enter \o it.log)
               ELSE LET r == DecodeWith(sc.cls, it.val, options)
                        ev == IF r.fn = "" THEN <<>>
                              ELSE <<Ev("strategy", TypeName(sc.cls), r.fn,
                                        HasKey(it.val, CLS_ANNO_KEY))>>
                    IN FR(r.st, r.val, r.err, it.inp, enter \o it.log \o ev)

RECURSIVE UnionTrace(_, _, _, _)
\* the candidate loop of _items_from_dict_generic_non_collection, one record
\* for each candidate: whether the loop variable obj still is the caller's
\* object when the candidate is reached, whether the candidate got past the
\* pre-filter, and how its from_dict ended
UnionTrace(cands, obj, same, options) ==
    IF cands = <<>> THEN <<>>
    ELSE LET cand_cls == Head(cands)
         IN IF IsBuiltinClass(cand_cls) /\ obj.c # cand_cls
            THEN <<[cls |-> cand_cls, same |-> same, tried |-> FALSE,
                    st |-> "", err |-> NoErr]>>
                   \o UnionTrace(Tail(cands), obj, same, options)
            ELSE LET r == from_dict(obj, ClsT(cand_cls), options)
                 IN <<[cls |-> cand_cls, same |-> same, tried |-> TRUE,
                       st |-> r.st, err |-> r.err]>>
                      \o (IF r.st = "ok"
                          THEN UnionTrace(Tail(cands), r.val, FALSE, options)
                          ELSE UnionTrace(Tail(cands), r.inp, same, options))

-----------------------------------------------------------------------------
(* The explored inputs *)

Ints == {IntV(i) : i \in 1..MaxInt}
Leaves == Ints \cup {StrV("a"), PathV("/p"), EnumV("Color", "Black")}
Obj1(c, v) == ObjV(c, <<Item("x", v)>>)
Dict1(v) == DictV(<<Item("x", v)>>)
PlainOver(S) == {Obj1(c, v) : c \in PlainClasses, v \in S}
DataInstances == {Obj1("D", i) : i \in Ints}
ListsOver(S) ==
    UNION {{ListV([i \in 1..k |-> Item("", f[i])]) : f \in [1..k -> S]} : k \in 0..MaxLen}
DictsOver(S) == {Dict1(v) : v \in S}

Objects1 == PlainOver(Leaves) \cup DataInstances \cup {Obj1("Custom", i) : i \in Ints}
Level1 == Leaves \cup Objects1 \cup ListsOver(Leaves) \cup DictsOver(Leaves)
Level2 ==
    PlainOver(Level1 \ Leaves)
      \cup {Obj1("General", Obj1("A", v)) : v \in Leaves}
      \cup ListsOver(Objects1) \cup DictsOver(Objects1)
Level3 == {Obj1("General", Obj1("A", Obj1("B", i))) : i \in Ints}
\* instances of the dict subclass, bare and inside a container
MyDictV(m) == V("MyDict", "", m)
MappingInstances ==
    {MyDictV(<<>>), MyDictV(<<Item("x", IntV(1))>>), MyDictV(<<Item("x", Obj1("D", IntV(1)))>>),
     ListV(<<Item("", MyDictV(<<>>))>>), Dict1(MyDictV(<<>>))}
\* the instances handed to to_dict; every field holds a value of its annotation
Instances == Level1 \cup Level2 \cup Level3 \cup MappingInstances

Tags == {"A", "B", "SomeB", "D", "SomeF", "Custom", "Color", "Nope"}
WithTag(d, t) == SetKey(d, CLS_ANNO_KEY, StrV(t))
EnumTree(n) == DictV(<<Item("value", IntV(1)), Item("name", StrV(n))>>)
FlatTrees ==
    {Dict1(p) : p \in Ints \cup {StrV("a")}} \cup {EnumTree(n) : n \in {"Black", "Red"}}
TaggedTrees ==
    {WithTag(Dict1(p), t) : p \in Ints, t \in Tags}
      \cup {WithTag(Dict1(StrV("a")), "A")}
      \cup {WithTag(EnumTree(n), t) : n \in {"Black", "Red"}, t \in {"Color", "Nope"}}
InnerTrees == {Dict1(IntV(1)), WithTag(Dict1(IntV(1)), "A"), WithTag(Dict1(IntV(1)), "Nope")}
NestedTrees == {Dict1(d) : d \in InnerTrees}
\* the trees handed to from_dict besides the results of to_dict
Trees ==
    FlatTrees \cup TaggedTrees \cup NestedTrees
      \cup {WithTag(d, t) : d \in NestedTrees, t \in {"A", "SomeF", "D", "Nope"}}
      \cup Ints \cup {StrV("a")}

\* from_dict reads recursively and strict only; the round trips run it with
\* with_cls off as well
DecodeOptions == {o \in Options : o.with_cls}
UnionMembers == {"A", "B", "int"}
UnionCandidates == {UnionT(<<a, b>>) : a, b \in UnionMembers} \ {UnionT(<<a, a>>) : a \in UnionMembers}
\* the trees decoded as the dataclass Rec: every choice of the keys present
RecItems ==
    <<Item("a", IntV(1)), Item("o", IntV(1)), Item("s", IntV(1)),
      Item("f", ListV(<<Item("", IntV(1))>>)), Item("os", IntV(1))>>
RecTrees ==
    {DictV(SelectSeq(RecItems, LAMBDA e : e.key \in K)) : K \in SUBSET {"a", "o", "s", "f", "os"}}

Candidates ==
    {NoneT} \cup {ClsT(c) : c \in {"A", "B", "D", "Color", "General", "Custom", "int", "PosixPath"}}
      \cup UnionCandidates

-----------------------------------------------------------------------------
(* The state machine: registrations and calls of the two public operations *)

\* the threads of the concurrent runs and a thread that runs nothing
Threads == {"t1", "t2"}
NoJob == [op |-> "none", shared |-> FALSE, arg |-> NoneV, cls |-> NoneT, opts |-> DefaultOptions]
NoThread ==
    [job |-> NoJob, pc |-> "idle", cls |-> NoneT, res |-> FR("ok", NoneV, NoErr, NoneV, <<>>)]

NoCall ==
    [op |-> "none", ins |-> NoneV, cls |-> NoneT, opts |-> DefaultOptions,
     src |-> NoneV, rt |-> FALSE, res |-> FR("ok", NoneV, NoErr, NoneV, <<>>)]

Init ==
    /\ registry = InitRegistry
    /\ builders = InitBuilders
    /\ marked = InitMarked
    /\ call = NoCall
    /\ heap = NoneV
    /\ threads = [t \in Threads |-> NoThread]

\* dictable(cls) and dictable(cls, name=...)
Dictable(cls, name) ==
    /\ call.op = "none"
    /\ registry' = [registry EXCEPT ![cls] = DictableEntry(cls, name, "", "")]
    /\ marked' = [marked EXCEPT ![cls] = MarkedAfter(cls, "dictable")]
    /\ UNCHANGED <<builders, call, threadVars>>

\* to_dictable(cls)
ToDictable(cls) ==
    /\ call.op = "none"
    /\ registry' = [registry EXCEPT ![cls] = ToDictableEntry(cls)]
    /\ marked' = [marked EXCEPT ![cls] = MarkedAfter(cls, "to_dictable")]
    /\ UNCHANGED <<builders, call, threadVars>>

\* from_dictable(cls)
FromDictable(cls) ==
    /\ call.op = "none"
    /\ registry' = [registry EXCEPT ![cls] = FromDictableEntry(cls)]
    /\ marked' = [marked EXCEPT ![cls] = MarkedAfter(cls, "from_dictable")]
    /\ UNCHANGED <<builders, call, threadVars>>

\* variant: to_dict that registers the class of an unregistered instance
CallToDict_registering(ins, options) ==
    LET r == to_dict(ins, options)
    IN /\ call.op = "none"
       /\ call' = [op |-> "to_dict", ins |-> ins, cls |-> NoneT, opts |-> options,
                   src |-> NoneV, rt |-> FALSE,
                   res |-> FR(r.st, r.val, r.err, ins, <<>>)]
       /\ registry' = IF ins.c \in UserClasses /\ ~registry[ins.c].reg
                      THEN [registry EXCEPT ![ins.c] = DictableEntry(ins.c, "", "", "")]
                      ELSE registry
       /\ UNCHANGED <<builders, marked, threadVars>>

\* AutoDict.to_dict(ins, options)
CallToDict(ins, options) ==
    LET r == to_dict(ins, options)
    IN /\ call.op = "none"
       /\ call' = [op |-> "to_dict", ins |-> ins, cls |-> NoneT, opts |-> options,
                   src |-> NoneV, rt |-> FALSE,
                   res |-> FR(r.st, r.val, r.err, ins, <<>>)]
       /\ UNCHANGED <<registry, builders, marked, threadVars>>

\* AutoDict.from_dict(obj, cls, options)
CallFromDict(obj, cls, options) ==
    /\ call.op = "none"
    /\ call' = [op |-> "from_dict", ins |-> obj, cls |-> cls, opts |-> options,
                src |-> NoneV, rt |-> FALSE, res |-> from_dict(obj, cls, options)]
    /\ UNCHANGED <<registry, builders, marked, threadVars>>

\* AutoDict.from_dict(AutoDict.to_dict(x, options), T, options), T the type of
\* x or left out
CallRoundTrip(explicit) ==
    /\ call.op = "to_dict"
    /\ call.res.st = "ok"
    /\ LET cls == IF explicit THEN ClsT(call.ins.c) ELSE NoneT
       IN call' = [op |-> "from_dict", ins |-> call.res.val, cls |-> cls,
                   opts |-> call.opts, src |-> call.ins, rt |-> TRUE,
                   res |-> from_dict(call.res.val, cls, call.opts)]
    /\ UNCHANGED <<registry, builders, marked, threadVars>>

\* the call has returned: the program goes on to register or to call again
Return ==
    /\ call.op # "none"
    /\ call' = NoCall
    /\ UNCHANGED <<registry, builders, marked, threadVars>>

\* the calls are made one at a time: a call is issued when none is pending
Issue ==
    \/ \E ins \in Instances, options \in Options : CallToDict(ins, options)
    \/ \E obj \in Trees, cls \in Candidates, options \in DecodeOptions :
          CallFromDict(obj, cls, options)
    \/ \E obj \in RecTrees, options \in DecodeOptions : CallFromDict(obj, ClsT("Rec"), options)

Next ==
    \/ Dictable("A", "")
    \/ \E name \in {"", "SomeB"} : Dictable("B", name)
    \/ ToDictable("B")
    \/ FromDictable("B")
    \/ call.op = "none" /\ Issue
    \/ \E explicit \in BOOLEAN : CallRoundTrip(explicit)
    \/ Return

Spec == Init /\ [][Next]_vars

-----------------------------------------------------------------------------
(* The providers and the engine on further shapes of classes: each call is   *)
(* made on the registry as the declarations of these classes leave it        *)

\* a call of a provider function
PCall(op, cls, arg, res) == [op |-> op, cls |-> cls, arg |-> arg, res |-> res]

KeyAlphabet == {"_", "H", "I", "p"}
\* the attribute names of at most MaxKey characters
Keys == UNION {[1..n -> KeyAlphabet] : n \in 0..MaxKey}
HiddenClasses == {"H", "HI", "IH"}

InitShapes ==
    /\ registry = InitRegistry
    /\ builders = InitBuilders
    /\ marked = InitMarked
    /\ call = NoCall
    /\ heap = NoneV
    /\ threads = [t \in Threads |-> NoThread]

RECURSIVE ItemsOver(_, _)
\* the mappings that give some of the keys, in their order, a value of values
ItemsOver(keys, values) ==
    IF keys = <<>> THEN {<<>>}
    ELSE LET rest == ItemsOver(Tail(keys), values)
         IN rest \cup {<<Item(Head(keys), v)>> \o r : v \in values, r \in rest}

\* the trees handed to default_from_dict for a class
ShapeKeys(cls) ==
    CASE cls \in {"P", "K"} -> <<"a", "b", "c">>
      [] cls \in {"H", "HI"} -> <<"p", "_p", "_H__q">>
      [] cls = "EmptyInit" -> <<"_p", "x">>
      [] cls = "NoInit" -> <<"args", "kwargs", "x">>
ShapeValues(cls) ==
    IF cls = "NoInit" THEN {IntV(1), ListV(<<>>), ListV(<<Item("", IntV(1))>>), DictV(<<>>)} ELSE Ints
ShapeTrees(cls) == {DictV(m) : m \in ItemsOver(ShapeKeys(cls), ShapeValues(cls))}

\* the tuple types and the trees decoded against them
TupleTypes ==
    {TupleT(args) : args \in {<<>>, <<"int", "...">>, <<"D", "...">>,
                              <<"D">>, <<"int", "int">>, <<"D", "int">>}}
TupleItems == {IntV(1), Dict1(IntV(1)), WithTag(Dict1(IntV(1)), "SomeF")}
TupleInputs ==
    UNION {{ListV([i \in 1..n |-> Item("", f[i])]) : f \in [1..n -> TupleItems]} :
             n \in 0..MaxTuple}
    \cup {IntV(1), Dict1(IntV(1))}

\* the trees handed to namedtuple_from_dict for NT: mappings over the field
\* names and sequences of up to one value more than NT has fields
TupleTrees ==
    {DictV(m) : m \in ItemsOver(NamedtupleFields("NT"), Ints)}
    \cup {ListV([i \in 1..n |-> Item("", v)]) : n \in 0..5, v \in Ints}

\* namedtuple_from_dict(cls, obj, options)
CallNamedtupleFromDict(cls, obj) ==
    /\ call.op = "none"
    /\ call' = PCall("namedtuple_from_dict", cls, obj, namedtuple_from_dict(cls, obj))
    /\ UNCHANGED <<registry, builders, marked, threadVars>>

\* the trees handed to dataclass_from_dict for WithField
FieldTrees == {DictV(m) : m \in ItemsOver(DeclaredFields("WithField"), Ints)}

\* dataclass_from_dict(cls, obj, options)
CallDataclassFromDict(cls, obj) ==
    /\ call.op = "none"
    /\ call' = PCall("dataclass_from_dict", cls, obj, dataclass_from_dict(cls, obj))
    /\ UNCHANGED <<registry, builders, marked, threadVars>>

\* default_from_dict(cls, obj, options)
CallDefaultFromDict(cls, obj) ==
    /\ call.op = "none"
    /\ call' = PCall("default_from_dict", cls, obj, default_from_dict(cls, obj))
    /\ UNCHANGED <<registry, builders, marked, threadVars>>

\* strip_hidden_member_prefix(cls, key)
CallStrip(cls, key) ==
    /\ call.op = "none"
    /\ call' = PCall("strip_hidden_member_prefix", cls, key,
                     strip_hidden_member_prefix(cls, key))
    /\ UNCHANGED <<registry, builders, marked, threadVars>>

\* the calls are made one at a time: a call is issued when none is pending
IssueShapes ==
    \/ \E cls \in HiddenClasses, key \in Keys : CallStrip(cls, key)
    \/ \E cls \in ShapeClasses : \E obj \in ShapeTrees(cls) : CallDefaultFromDict(cls, obj)
    \/ \E obj \in FieldTrees : CallDataclassFromDict("WithField", obj)
    \/ \E obj \in TupleTrees : CallNamedtupleFromDict("NT", obj)
    \/ \E obj \in TupleInputs, cls \in TupleTypes, options \in DecodeOptions :
          CallFromDict(obj, cls, options)

NextShapes ==
    \/ call.op = "none" /\ IssueShapes
    \/ Return

SpecShapes == InitShapes /\ [][NextShapes]_vars

-----------------------------------------------------------------------------
(* Concurrent calls once registration has settled: each thread runs one call *)
(* of to_dict or from_dict; the threads that are handed the shared tree run  *)
(* strip_class statement by statement on the one dict object in heap         *)

SharedTrees ==
    {Dict1(IntV(1))} \cup {WithTag(Dict1(IntV(1)), t) : t \in {"A", "SomeF", "Nope"}}
ThreadOptions == {o \in DecodeOptions : o.recursively}
Job(op, shared, arg, cls, opts) ==
    [op |-> op, shared |-> shared, arg |-> arg, cls |-> cls, opts |-> opts]
\* the calls a thread may run when the shared tree is tree: from_dict on the
\* shared tree or on a tree of its own, to_dict on an instance
JobsOn(tree) ==
    {Job("from_dict", sh, tree, cls, o) :
        sh \in BOOLEAN, cls \in {NoneT, ClsT("A")}, o \in ThreadOptions}
      \cup {Job("to_dict", FALSE, Obj1("A", IntV(1)), NoneT, o) : o \in ThreadOptions}
\* the call run alone on its argument
RunAlone(job) ==
    IF job.op = "to_dict"
    THEN LET r == to_dict(job.arg, job.opts) IN FR(r.st, r.val, r.err, job.arg, <<>>)
    ELSE from_dict(job.arg, job.cls, job.opts)
Done(t, r) ==
    [threads EXCEPT ![t].pc = "done", ![t].res = FR(r.st, r.val, r.err, NoneV, <<>>)]
KeyError == Err("KeyError", CLS_ANNO_KEY)

InitThreads ==
    /\ \E settled \in BOOLEAN :
          /\ registry = IF settled
                        THEN [InitRegistry EXCEPT !["A"] = DictableEntry("A", "", "", "")]
                        ELSE InitRegistry
          /\ marked = IF settled THEN [InitMarked EXCEPT !["A"] = <<"dictable">>]
                      ELSE InitMarked
    /\ builders = InitBuilders
    /\ call = NoCall
    /\ heap \in SharedTrees
    /\ \E j1, j2 \in JobsOn(heap) :
          threads = [t \in Threads |->
                       [NoThread EXCEPT !.job = IF t = "t1" THEN j1 ELSE j2, !.pc = "call"]]

\* a call on an argument no other thread holds
Run(t) ==
    /\ threads[t].pc = "call"
    /\ ~threads[t].job.shared
    /\ \E r \in {RunAlone(threads[t].job)} : threads' = Done(t, r)
    /\ UNCHANGED <<registry, builders, marked, call, heap>>

\* strip_class: if not isinstance(obj, dict) or CLS_ANNO_KEY not in obj
Check(t) ==
    /\ threads[t].pc = "call"
    /\ threads[t].job.shared
    /\ threads' = IF HasKey(heap, CLS_ANNO_KEY)
                  THEN [threads EXCEPT ![t].pc = "read"]
                  ELSE [threads EXCEPT ![t].pc = "decode", ![t].cls = threads[t].job.cls]
    /\ UNCHANGED <<registry, builders, marked, call, heap>>

\* strip_class: cls_name = obj[CLS_ANNO_KEY], the lookup and the branch on it
Read(t) ==
    /\ threads[t].pc = "read"
    /\ threads' =
          IF ~HasKey(heap, CLS_ANNO_KEY) THEN Done(t, KeyError)
          ELSE LET cls_name == Get(heap, CLS_ANNO_KEY).s
                   job == threads[t].job
               IN IF QueryHit(cls_name)
                  THEN [threads EXCEPT ![t].pc = "del", ![t].cls = ClsT(Query(cls_name))]
                  ELSE IF job.cls = NoneT /\ job.opts.strict
                  THEN Done(t, UnableFromDict(cls_name))
                  ELSE [threads EXCEPT ![t].pc = "decode", ![t].cls = job.cls]
    /\ UNCHANGED <<registry, builders, marked, call, heap>>

\* strip_class: del obj[CLS_ANNO_KEY]
Del(t) ==
    /\ threads[t].pc = "del"
    /\ IF HasKey(heap, CLS_ANNO_KEY)
       THEN /\ heap' = DelKey(heap, CLS_ANNO_KEY)
            /\ threads' = [threads EXCEPT ![t].pc = "decode"]
       ELSE /\ threads' = Done(t, KeyError)
            /\ UNCHANGED heap
    /\ UNCHANGED <<registry, builders, marked, call>>

\* strip_class has nothing left to do for thread t: the shared tree holds no
\* tag that resolves and the target is decided
StripIsDone(t) ==
    LET sc == strip_class(heap, threads[t].cls, threads[t].job.opts)
    IN sc.st = "ok" /\ sc.obj = heap /\ sc.cls = threads[t].cls

\* AutoDict.from_dict after strip_class (the items, then the strategy) on the
\* shared tree as it is now; strip_class has run, so the strip_class inside
\* from_dict is the identity here
Decode(t) ==
    /\ threads[t].pc = "decode"
    /\ StripIsDone(t)
    /\ \E r \in {from_dict(heap, threads[t].cls, threads[t].job.opts)} :
          threads' = Done(t, r)
    /\ UNCHANGED <<registry, builders, marked, call, heap>>

NextThreads ==
    \E t \in Threads : Run(t) \/ Check(t) \/ Read(t) \/ Del(t) \/ Decode(t)

SpecThreads == InitThreads /\ [][NextThreads]_vars

-----------------------------------------------------------------------------
(* Vocabulary of the properties *)

IsToDictCall == call.op = "to_dict"
IsFromDictCall == call.op = "from_dict"
Succeeded == call.res.st = "ok"
Raised(kind) == call.res.st = "err" /\ call.res.err.kind = kind
IsContainer(v) == IsDict(v) \/ IsList(v)

\* both halves of the registry entry of c work
FullyRegistered(c) ==
    /\ Registered(c)
    /\ MetaOf(c).to_dict # "unable_to_dict"
    /\ MetaOf(c).from_dict # "unable_from_dict"

\* to_dict has no path for the type: not a Dictable subclass, not registered,
\* not a dataclass or enum, not built-in
NoEncodePath(c) ==
    ~(IsDictableSubclass(c) \/ Registered(c) \/ IsDataclass(c) \/ IsEnum(c) \/ IsBuiltinClass(c))

RECURSIVE BuiltFromRegistered(_)
\* v is built from primitives, built-in containers and fully registered types
BuiltFromRegistered(v) ==
    /\ IsBuiltinClass(v.c) \/ FullyRegistered(v.c)
    /\ \A i \in DOMAIN v.m : BuiltFromRegistered(v.m[i].val)

RECURSIVE Recoverable(_, _, _)
\* the decoder can tell the type of every registered value in v, held where
\* the declared type is t: the value sits under an annotation naming its
\* class, or it is encoded as a mapping that carries its tag
Recoverable(v, t, options) ==
    /\ ~IsBuiltinClass(v.c) =>
          \/ t = ClsT(v.c)
          \/ options.with_cls /\ v.c \notin PathClasses
    /\ options.recursively =>
          \A i \in DOMAIN v.m :
             Recoverable(v.m[i].val,
                         IF IsBuiltinClass(v.c) THEN NoneT ELSE Annotation(v.c, v.m[i].key),
                         options)

TagOf(obj) == Get(obj, CLS_ANNO_KEY).s
HasResolvableTag(obj) == HasKey(obj, CLS_ANNO_KEY) /\ QueryHit(TagOf(obj))
HasUnresolvableTag(obj) == HasKey(obj, CLS_ANNO_KEY) /\ ~QueryHit(TagOf(obj))
SameOutcome(r1, r2) == r1.st = r2.st /\ r1.val = r2.val /\ r1.err = r2.err

-----------------------------------------------------------------------------
(* C1: round trip *)

-----------------------------------------------------------------------------
(* C2: tagging *)

\* C2 as stated: with with_cls on, to_dict(x) for x of a registered type that
\* is not built-in returns a mapping holding "@" mapped to the registered name.
C2_TaggingAsStated ==
    (/\ IsToDictCall
     /\ call.opts.with_cls
     /\ ~IsBuiltinClass(call.ins.c)
     /\ Registered(call.ins.c)
     /\ Succeeded)
    => (/\ HasKey(call.res.val, CLS_ANNO_KEY)
        /\ TagOf(call.res.val) = MetaOf(call.ins.c).name)

\* C2 amended: with with_cls on, whenever to_dict(x) succeeds for x of a type
\* that is not built-in and the encoded result is a mapping, the mapping holds
\* "@" mapped to the registered name of type(x), or to the class name for an
\* unregistered dataclass or enum; a non-mapping result is returned untagged.
C2_Tagging ==
    (/\ IsToDictCall
     /\ call.opts.with_cls
     /\ ~IsBuiltinClass(call.ins.c)
     /\ Succeeded)
    => (IsDict(call.res.val) =>
          /\ HasKey(call.res.val, CLS_ANNO_KEY)
          /\ Get(call.res.val, CLS_ANNO_KEY) =
               StrV(IF Registered(call.ins.c) THEN MetaOf(call.ins.c).name ELSE call.ins.c))

C2_Witness ==
    /\ IsToDictCall
    /\ call.opts.with_cls
    /\ call.ins.c = "B"
    /\ Succeeded
    /\ IsDict(call.res.val)
    /\ HasKey(call.res.val, CLS_ANNO_KEY)
    /\ TagOf(call.res.val) = "SomeB"

-----------------------------------------------------------------------------
(* C3: strictness monotonicity of to_dict *)

\* C3 as stated: if to_dict(x) with strict on succeeds, strict off returns the
\* same; if it fails with UnableToDict, strict off succeeds and returns x.
C3_StrictnessAsStated ==
    (IsToDictCall /\ call.opts.strict)
    => LET lax == to_dict(call.ins, [call.opts EXCEPT !.strict = FALSE])
       IN /\ Succeeded => SameOutcome(lax, call.res)
          /\ Raised("UnableToDict") => (lax.st = "ok" /\ lax.val = call.ins)

\* C3 amended: if to_dict(x) with strict on succeeds, strict off returns the
\* same; if it fails with UnableToDict because type(x) itself has no encode
\* path, strict off passes x through: the call returns x unchanged, except
\* that an instance of a dict subclass fails with UnableToDict when with_cls
\* is on, and otherwise is returned with its items encoded when recursively
\* is on.
C3_Strictness ==
    (IsToDictCall /\ call.opts.strict)
    => LET laxly == [call.opts EXCEPT !.strict = FALSE]
           lax == to_dict(call.ins, laxly)
       IN /\ Succeeded => SameOutcome(lax, call.res)
          /\ (Raised("UnableToDict") /\ NoEncodePath(call.ins.c))
                => IF IsDict(call.ins) /\ call.opts.with_cls
                   THEN lax.st = "err" /\ lax.err.kind = "UnableToDict"
                   ELSE IF IsDict(call.ins) /\ call.opts.recursively
                   THEN lax = _items_to_dict(call.ins, laxly)
                   ELSE lax.st = "ok" /\ lax.val = call.ins

C3_Witness ==
    /\ IsToDictCall
    /\ call.opts.strict
    /\ Raised("UnableToDict")
    /\ NoEncodePath(call.ins.c)
    /\ call.res.err.name = call.ins.c
    /\ call.ins.m # <<>>

-----------------------------------------------------------------------------
(* C4: strict to_dict fails on every type without an encode path *)

RECURSIVE ReachesOffending(_, _)
RECURSIVE ReachesOffendingIn(_, _)
\* the instance, or an item the recursion gets to, has no encode path
ReachesOffending(v, options) ==
    \/ NoEncodePath(v.c)
    \/ /\ options.recursively
       /\ SelectToDict(v, options).st = "ok"
       /\ IsContainer(SelectToDict(v, options).val)
       /\ ReachesOffendingIn(SelectToDict(v, options).val.m, options)
ReachesOffendingIn(m, options) ==
    /\ m # <<>>
    /\ \/ ReachesOffending(Head(m).val, options)
       \/ /\ to_dict(Head(m).val, options).st = "ok"
          /\ ReachesOffendingIn(Tail(m), options)

\* C4: with strict on, to_dict fails with UnableToDict naming a type without
\* an encode path whenever the instance or an item reached by the recursion
\* has such a type; no tree is returned.
C4_StrictFails ==
    (IsToDictCall /\ call.opts.strict /\ ReachesOffending(call.ins, call.opts))
    => (/\ Raised("UnableToDict")
        /\ NoEncodePath(call.res.err.name)
        /\ call.res.val = NoneV)

C4_Witness ==
    /\ IsToDictCall
    /\ call.opts.strict
    /\ ~NoEncodePath(call.ins.c)
    /\ \E i \in DOMAIN call.ins.m : ~NoEncodePath(call.ins.m[i].val.c)
    /\ ReachesOffending(call.ins, call.opts)
    /\ Raised("UnableToDict")

-----------------------------------------------------------------------------
(* C5: the tag takes precedence over a class candidate *)

\* C5: when the tree is a mapping whose "@" tag resolves to a registered type
\* R, from_dict with a different class as candidate does what it does with R
\* as candidate, and what it builds is an instance of R.
C5_TagPrecedence ==
    (/\ IsFromDictCall
     /\ HasResolvableTag(call.ins)
     /\ IsClsT(call.cls)
     /\ ClsOf(call.cls) # Query(TagOf(call.ins)))
    => (/\ SameOutcome(call.res, from_dict(call.ins, ClsT(Query(TagOf(call.ins))), call.opts))
        /\ Succeeded => call.res.val.c = Query(TagOf(call.ins)))

C5_Witness ==
    /\ IsFromDictCall
    /\ HasResolvableTag(call.ins)
    /\ TagOf(call.ins) = "A"
    /\ call.cls = ClsT("B")
    /\ Registered("B")
    /\ Succeeded
    /\ call.res.val.c = "A"

-----------------------------------------------------------------------------
(* C6: a Union candidate and a resolvable tag *)

-----------------------------------------------------------------------------
(* C7: the tag is stripped before a decode strategy runs *)

\* C7: whenever from_dict hands a mapping to a decode strategy, the mapping
\* does not hold the key "@".
C7_TagStripped ==
    IsFromDictCall
    => \A i \in DOMAIN call.res.log :
          call.res.log[i].ev = "strategy" => ~call.res.log[i].tag

-----------------------------------------------------------------------------
(* C8: strict from_dict on an unresolvable tag without candidate *)

\* C8: with strict on and no candidate type, from_dict on a mapping whose tag
\* names a type that is not in the registry fails with UnableFromDict naming
\* the tag, before any item is decoded and before any strategy runs.
C8_UnknownTagFails ==
    (/\ IsFromDictCall
     /\ call.opts.strict
     /\ call.cls = NoneT
     /\ HasUnresolvableTag(call.ins))
    => (/\ Raised("UnableFromDict")
        /\ call.res.err.name = TagOf(call.ins)
        /\ Len(call.res.log) = 1
        /\ call.res.inp = call.ins)

C8_Witness ==
    /\ IsFromDictCall
    /\ call.opts.strict
    /\ call.opts.recursively
    /\ call.cls = NoneT
    /\ HasUnresolvableTag(call.ins)
    /\ TagOf(call.ins) = "D"
    /\ \E i \in DOMAIN call.ins.m : IsDict(call.ins.m[i].val)
    /\ Raised("UnableFromDict")

-----------------------------------------------------------------------------
(* C9: pass-through of from_dict with strict off *)

\* the candidate is a class without any decode path
NoDecodePath(t) ==
    /\ IsClsT(t)
    /\ NoEncodePath(ClsOf(t))
PassThroughCase ==
    /\ IsFromDictCall
    /\ ~call.opts.strict
    /\ \/ call.cls = NoneT /\ HasUnresolvableTag(call.ins)
       \/ NoDecodePath(call.cls) /\ ~HasResolvableTag(call.ins)

\* C9 as stated: with strict off, from_dict on a mapping with an unresolvable
\* tag and no candidate returns a mapping equal to the input, "@" included;
\* and from_dict with an unregistered candidate that is not built-in (and has
\* no native decode path) on a tree without resolvable tag returns the tree
\* unchanged.
C9_PassThroughAsStated ==
    PassThroughCase => (Succeeded /\ call.res.val = call.ins)

\* C9 amended: with strict off, from_dict on a mapping with an unresolvable
\* tag and no candidate, or with a candidate class that has no decode path
\* (not registered, not a dataclass or enum, not built-in) on a tree without
\* resolvable tag, returns the tree with its items replaced by their decoded
\* forms when recursively is on and their decoding succeeds, and the tree
\* itself otherwise; the "@" key of the tree is kept.
C9_PassThrough ==
    PassThroughCase
    => LET items == StableMapFromDict(call.ins, "", call.opts)
       IN /\ call.opts.recursively => SameOutcome(call.res, items)
          /\ ~call.opts.recursively => (Succeeded /\ call.res.val = call.ins)
          /\ (\A i \in DOMAIN call.ins.m : ~IsContainer(call.ins.m[i].val))
                => (Succeeded /\ call.res.val = call.ins)
          /\ (Succeeded /\ HasKey(call.ins, CLS_ANNO_KEY))
                => (/\ HasKey(call.res.val, CLS_ANNO_KEY)
                    /\ TagOf(call.res.val) = TagOf(call.ins))

C9_Witness ==
    /\ PassThroughCase
    /\ call.cls = NoneT
    /\ HasUnresolvableTag(call.ins)
    /\ TagOf(call.ins) = "Nope"
    /\ call.opts.recursively
    /\ Succeeded
    /\ call.res.val # call.ins
    /\ TagOf(call.res.val) = "Nope"

-----------------------------------------------------------------------------
(* C10: union decode cardinality *)

\* the candidates under which the value decodes on its own: the value passes
\* the instance check of a built-in candidate and from_dict against the
\* candidate alone succeeds
ValidCandidates(obj, cls, options) ==
    {i \in DOMAIN cls.args :
        /\ IsBuiltinClass(cls.args[i]) => obj.c = cls.args[i]
        /\ from_dict(obj, ClsT(cls.args[i]), options).st = "ok"}

\* C10: decoding a value against a Union succeeds with candidate C when the
\* value is valid under exactly C, and fails with the ambiguity error when it
\* is valid under two or more candidates, in whatever order they are declared.
C10_UnionCardinality ==
    (/\ IsFromDictCall
     /\ is_generic_union(call.cls)
     /\ call.opts.recursively
     /\ ~HasKey(call.ins, CLS_ANNO_KEY))
    => LET valid == ValidCandidates(call.ins, call.cls, call.opts)
       IN /\ Cardinality(valid) = 1 =>
               \A i \in valid :
                  SameOutcome(call.res, from_dict(call.ins, ClsT(call.cls.args[i]), call.opts))
          /\ Cardinality(valid) >= 2 => Raised("ValueError")

-----------------------------------------------------------------------------
(* C11: partial registration symmetry *)

HasPrimitiveItems(v) ==
    \A i \in DOMAIN v.m : IsBuiltinClass(v.m[i].val.c) /\ ~IsContainer(v.m[i].val)
\* the class from_dict decodes the tree against, once the tag is looked up
TargetIs(c) ==
    /\ IsFromDictCall
    /\ strip_class(call.ins, call.cls, call.opts).st = "ok"
    /\ strip_class(call.ins, call.cls, call.opts).cls = ClsT(c)
BothPartial(c) == Len(marked[c]) = 2

\* C11: after to_dictable(T) and from_dictable(T) were both applied to an
\* unregistered type T, in either order and with default functions, the entry
\* of T is the entry a single dictable(T) writes, with a working encode and a
\* working decode, so to_dict and from_dict on T do what they do after
\* dictable(T): an instance with primitive items is encoded to its tagged
\* mapping and that mapping is decoded to an equal instance.
C11_PartialSymmetry ==
    \A c \in UserClasses :
       BothPartial(c) =>
          /\ registry[c] = DictableEntry(c, "", "", "")
          /\ FullyRegistered(c)
          /\ (IsToDictCall /\ call.ins.c = c /\ HasPrimitiveItems(call.ins))
                => (/\ Succeeded
                    /\ call.res.val =
                         embed_class(c, default_to_dict(call.ins).val, call.opts).val)
          /\ (call.rt /\ call.src.c = c /\ HasPrimitiveItems(call.src) /\ TargetIs(c))
                => (Succeeded /\ call.res.val = call.src)

C11_Witness ==
    /\ marked["B"] = <<"from_dictable", "to_dictable">>
    /\ call.rt
    /\ call.src = Obj1("B", IntV(1))
    /\ call.cls = NoneT
    /\ call.opts.with_cls
    /\ Succeeded
    /\ call.res.val = call.src

-----------------------------------------------------------------------------
(* C12: one-sided registration *)

\* C12: for a type marked only with to_dictable, to_dict returns its tagged
\* mapping and from_dict against the type fails with UnableFromDict naming the
\* type; for a type marked only with from_dictable, from_dict against the type
\* builds the instance and to_dict fails with UnableToDict naming the type.
C12_OneSided ==
    \A c \in UserClasses :
       /\ marked[c] = <<"to_dictable">> =>
             /\ (IsToDictCall /\ call.ins.c = c) =>
                   /\ Raised("UnableToDict") => call.res.err.name # c
                   /\ HasPrimitiveItems(call.ins) => Succeeded
                   /\ (Succeeded /\ call.opts.with_cls) =>
                         (HasKey(call.res.val, CLS_ANNO_KEY) /\ TagOf(call.res.val) = c)
             /\ TargetIs(c) =>
                   /\ ~Succeeded
                   /\ HasPrimitiveItems(call.ins) =>
                         (Raised("UnableFromDict") /\ call.res.err.name = c)
       /\ marked[c] = <<"from_dictable">> =>
             /\ (IsToDictCall /\ call.ins.c = c) =>
                   (Raised("UnableToDict") /\ call.res.err.name = c)
             /\ (TargetIs(c) /\ IsDict(call.ins) /\ HasPrimitiveItems(call.ins)) =>
                   (Succeeded /\ call.res.val.c = c)

C12_Witness ==
    /\ marked["B"] = <<"to_dictable">>
    /\ call.rt
    /\ call.src = Obj1("B", IntV(1))
    /\ call.opts.with_cls
    /\ HasKey(call.ins, CLS_ANNO_KEY)
    /\ TagOf(call.ins) = "B"
    /\ Raised("UnableFromDict")
    /\ call.res.err.name = "B"

-----------------------------------------------------------------------------
(* C13: reentrancy *)

\* C13: once registration has settled, to_dict and from_dict calls running
\* concurrently in several threads, in every interleaving of their steps and
\* also when they are given the same input tree, each return what they return
\* when run alone, and none fails because of the other.
C13_Reentrant ==
    \A t \in Threads :
       threads[t].pc = "done" => SameOutcome(threads[t].res, RunAlone(threads[t].job))

\* a thread that reaches the decoding step has a tree that strip_class leaves
C13_DecodeEnabled == \A t \in Threads : threads[t].pc = "decode" => StripIsDone(t)

\* the same for the runs in which at most one thread is handed the shared tree
C13_ReentrantUnshared ==
    (\A t1, t2 \in Threads : threads[t1].job.shared /\ threads[t2].job.shared => t1 = t2)
    => C13_Reentrant

-----------------------------------------------------------------------------
(* C14: registry frame condition *)

\* a step in which a to_dict or from_dict call runs
IsCallStep == call' # call /\ call'.op \in {"to_dict", "from_dict"}

\* C14: no to_dict or from_dict call changes the strategy registry or the
\* mapping-builder registry, whether the call succeeds or fails.
C14_RegistryFrame ==
    [][IsCallStep => (registry' = registry /\ builders' = builders)]_vars

\* a call on an instance of a class that is not registered has failed while
\* another class was registered before it; the class is still unregistered
C14_Witness ==
    /\ IsToDictCall
    /\ call.ins.c = "A"
    /\ Raised("UnableToDict")
    /\ ~registry["A"].reg
    /\ registry["B"].reg

-----------------------------------------------------------------------------
(* C15: enum decode *)

\* the call decodes a mapping with 'value' and 'name' as the enum cls
EnumDecode(cls) ==
    /\ TargetIs(cls)
    /\ IsEnum(cls)
    /\ ~Registered(cls)
    /\ IsDict(call.ins)
    /\ HasKey(call.ins, "value")
    /\ HasKey(call.ins, "name")

\* C15: enum_from_dict builds the member from the tree's 'value' alone and
\* returns it only when that member's name equals the tree's 'name'; when the
\* names differ the decoding fails: neither the member of that name nor the
\* member of that value is returned.
C15_EnumDecode ==
    \A cls \in EnumClasses : EnumDecode(cls) =>
       LET value == Get(call.ins, "value")
           name == Get(call.ins, "name")
       IN /\ Succeeded =>
               /\ call.res.val.c = cls
               /\ EnumValue(cls, call.res.val.s) = value
               /\ StrV(call.res.val.s) = name
          /\ (EnumByValueHit(cls, value) /\ StrV(EnumByValue(cls, value)) # name)
               => Raised("AssertionError")
          /\ (EnumByValueHit(cls, value) /\ StrV(EnumByValue(cls, value)) = name)
               => (Succeeded /\ call.res.val = EnumV(cls, EnumByValue(cls, value)))

\* value 1 is Black, the tree names Red: the decoding has failed
C15_Witness ==
    /\ EnumDecode("Color")
    /\ Get(call.ins, "value") = IntV(1)
    /\ Get(call.ins, "name") = StrV("Red")
    /\ Raised("AssertionError")

\* value 1 with the name Black has been decoded to Color.Black
C15_WitnessMatch ==
    /\ EnumDecode("Color")
    /\ Get(call.ins, "name") = StrV("Black")
    /\ Succeeded
    /\ call.res.val = EnumV("Color", "Black")

-----------------------------------------------------------------------------
(* C16: record field defaulting *)

\* the call decodes one of the Rec trees as the dataclass Rec
RecDecode == IsFromDictCall /\ call.cls = ClsT("Rec") /\ call.ins \in RecTrees

\* nothing stands in for field f of Rec when the tree has no value for it
NoValueFor(f) ==
    /\ ~HasKey(call.ins, f)
    /\ FieldDefault("Rec", f) = MISSING
    /\ FieldDefaultFactory("Rec", f) = MISSING
    /\ ~is_generic_optional(Annotation("Rec", f))

\* C16: for every declared field of a dataclass, dataclass_from_dict uses the
\* tree's value when the key is present, else the field's static default,
\* else the result of its default factory, else None only when the declared
\* type is Optional; when none of these applies the decoding fails with an
\* error naming that field. The alternatives are tried in this order.
C16_FieldDefaulting ==
    RecDecode =>
       IF \E i \in DOMAIN Fields("Rec") : NoValueFor(Fields("Rec")[i])
       THEN /\ Raised("RuntimeError")
            /\ NoValueFor(call.res.err.name)
       ELSE /\ Succeeded
            /\ call.res.val.c = "Rec"
            /\ \A i \in DOMAIN Fields("Rec") :
                 LET f == Fields("Rec")[i]
                 IN Get(call.res.val, f) =
                      IF HasKey(call.ins, f) THEN Get(call.ins, f)
                      ELSE IF FieldDefault("Rec", f) # MISSING THEN FieldDefault("Rec", f)
                      ELSE IF FieldDefaultFactory("Rec", f) # MISSING
                      THEN FieldDefaultFactory("Rec", f)
                      ELSE NoneV

\* only 'a' is given: o is None, s and os are the static default 3, f is the
\* list of the factory
C16_Witness ==
    /\ RecDecode
    /\ call.ins = DictV(<<Item("a", IntV(1))>>)
    /\ Succeeded
    /\ call.res.val = ObjV("Rec", <<Item("a", IntV(1)), Item("o", NoneV), Item("s", IntV(3)),
                                    Item("f", ListV(<<>>)), Item("os", IntV(3))>>)

\* 'a' is absent and nothing stands in for it: the decoding has failed naming a
C16_WitnessMissing ==
    /\ RecDecode
    /\ ~HasKey(call.ins, "a")
    /\ HasKey(call.ins, "os")
    /\ Raised("RuntimeError")
    /\ call.res.err.name = "a"

-----------------------------------------------------------------------------
(* C17: strict decoding of a mapping with an unresolvable tag *)

\* the call is a strict from_dict on a mapping whose tag does not resolve
StrictUnresolved ==
    /\ IsFromDictCall
    /\ call.opts.strict
    /\ IsDict(call.ins)
    /\ HasUnresolvableTag(call.ins)

\* the items of the mapping decode to themselves against the class c: they are
\* primitives and c declares no user class for any of them
ItemsDecodeToThemselves(c) ==
    /\ HasPrimitiveItems(call.ins)
    /\ \A i \in DOMAIN call.ins.m :
          LET t == Annotation(c, call.ins.m[i].key) IN t = NoneT \/ is_builtin(t)

\* C17 as stated: with strict on, from_dict on a mapping whose tag does not
\* resolve to a registered type fails with UnableFromDict naming the tag,
\* whether or not a candidate type was supplied.
C17_StrictUnresolvedAsStated ==
    StrictUnresolved => (Raised("UnableFromDict") /\ call.res.err.name = TagOf(call.ins))

\* C17 as the code has it: with strict on, from_dict on a mapping whose tag
\* does not resolve fails with UnableFromDict naming the tag when no candidate
\* type was supplied; when a candidate was supplied the tag is left in the
\* mapping and the mapping is decoded against the candidate, the outcome being
\* that of the candidate's decode strategy on the mapping with its tag.
C17_StrictUnresolved ==
    StrictUnresolved =>
       /\ call.cls = NoneT =>
             (Raised("UnableFromDict") /\ call.res.err.name = TagOf(call.ins))
       /\ call.cls # NoneT =>
             /\ HasKey(call.res.inp, CLS_ANNO_KEY)
             /\ TagOf(call.res.inp) = TagOf(call.ins)
             /\ (IsClsT(call.cls) /\ ItemsDecodeToThemselves(ClsOf(call.cls)))
                   => SameOutcome(call.res, DecodeWith(call.cls, call.ins, call.opts))

\* the tag Nope does not resolve, the candidate is the dataclass D: the call
\* has built D from the mapping
C17_Witness ==
    /\ StrictUnresolved
    /\ call.cls = ClsT("D")
    /\ call.ins = WithTag(Dict1(IntV(1)), "Nope")
    /\ Succeeded
    /\ call.res.val = Obj1("D", IntV(1))

-----------------------------------------------------------------------------
(* C18, C19: the candidate loop of union decoding *)

\* the call decodes its input against a Union
UnionCall ==
    /\ IsFromDictCall
    /\ call.opts.recursively
    /\ strip_class(call.ins, call.cls, call.opts).st = "ok"
    /\ is_generic_union(strip_class(call.ins, call.cls, call.opts).cls)

\* the candidates of the call, as the loop goes through them
CallTrace ==
    LET sc == strip_class(call.ins, call.cls, call.opts)
    IN UnionTrace(sc.cls.args, sc.obj, TRUE, call.opts)

\* no candidate succeeds: each one is skipped by the pre-filter or raises
NoMatch == \A i \in DOMAIN CallTrace : ~(CallTrace[i].tried /\ CallTrace[i].st = "ok")

\* C18: when a raw value is decoded against a Union and no candidate succeeds
\* (every candidate is skipped by the primitive pre-filter or raises),
\* from_dict fails by propagating the failure of the last candidate that was
\* attempted.
C18_UnionNoMatch ==
    (UnionCall /\ NoMatch) =>
       /\ ~Succeeded
       /\ \A i \in DOMAIN CallTrace :
            (/\ CallTrace[i].tried
             /\ \A j \in DOMAIN CallTrace : j > i => ~CallTrace[j].tried)
            => call.res.err = CallTrace[i].err

\* what the code does when no candidate succeeds: popitem on the empty dict of
\* matches raises KeyError, whatever the candidates raised
C18_UnionNoMatchKeyError ==
    (UnionCall /\ NoMatch) => (Raised("KeyError") /\ call.res.err.name = "popitem")

\* C19: during union decoding every candidate that survives the primitive
\* pre-filter is attempted against the original raw value; the value produced
\* by an earlier successful attempt is never the input of a later candidate's
\* pre-filter or conversion attempt.
C19_UnionIndependent ==
    UnionCall => \A i \in DOMAIN CallTrace : CallTrace[i].same

\* what the code does: a candidate after a successful one is given the value
\* that one produced
C19_UnionRebinds ==
    UnionCall =>
       \A i \in DOMAIN CallTrace :
          CallTrace[i].same <=>
             (\A j \in DOMAIN CallTrace : j < i => ~(CallTrace[j].tried /\ CallTrace[j].st = "ok"))

-----------------------------------------------------------------------------
(* C20: registry entry lifecycle *)

\* the step leaves the entry of c registered under its name and changes at
\* most an always-fail half of it
EntryKept(c) ==
    /\ registry'[c].reg
    /\ registry'[c].name = registry[c].name
    /\ registry[c].to_dict # "unable_to_dict" => registry'[c].to_dict = registry[c].to_dict
    /\ registry[c].from_dict # "unable_from_dict"
          => registry'[c].from_dict = registry[c].from_dict

\* C20: after any sequence of dictable, to_dictable and from_dictable calls, a
\* type that has been registered stays registered and resolvable by its name,
\* and a later registration call on the same type changes its entry only by
\* replacing an always-fail half with a working one; the entry's name and an
\* already working encode or decode function are never changed.
C20_EntryLifecycle ==
    [][\A c \in UserClasses : registry[c].reg => EntryKept(c)]_vars

\* what the code keeps: a registered type stays registered, and to_dictable
\* and from_dictable keep the other half of the entry they find
C20_EntryStaysRegistered ==
    [][\A c \in UserClasses : registry[c].reg =>
          /\ registry'[c].reg
          /\ marked'[c] # marked[c] /\ marked'[c][Len(marked'[c])] = "to_dictable"
                => registry'[c].from_dict = registry[c].from_dict
          /\ marked'[c] # marked[c] /\ marked'[c][Len(marked'[c])] = "from_dictable"
                => registry'[c].to_dict = registry[c].to_dict]_vars

-----------------------------------------------------------------------------
(* C27: strip_hidden_member_prefix *)

RECURSIVE AncestorsOf(_)
\* the base classes of the classes in the sequence cs, and theirs
AncestorsOf(cs) ==
    IF cs = <<>> THEN {}
    ELSE {Head(cs)} \cup AncestorsOf(Bases(Head(cs))) \cup AncestorsOf(Tail(cs))

IsStripCall == call.op = "strip_hidden_member_prefix"

\* C27: strip_hidden_member_prefix(cls, key) terminates for every class and
\* key; it returns key unchanged when key does not start with '_', returns
\* the part after '_C__' when key starts with that prefix for C being cls or
\* one of its ancestors, and otherwise returns key with exactly one leading
\* character removed.
C27_StripHidden ==
    IsStripCall =>
       LET key == call.arg
           declaring == {c \in AncestorsOf(<<call.cls>>) : StartsWith(key, HiddenPrefix(c))}
       IN IF key = <<>> \/ key[1] # "_" THEN call.res = key
          ELSE IF declaring # {}
          THEN \E c \in declaring : call.res = SubSeq(key, Len(HiddenPrefix(c)) + 1, Len(key))
          ELSE call.res = Tail(key)

\* the private attribute p of the base class H, asked for the subclass HI
C27_Witness ==
    /\ IsStripCall
    /\ call.cls = "HI"
    /\ call.arg = <<"_", "H", "_", "_", "p">>
    /\ call.res = <<"p">>

-----------------------------------------------------------------------------
(* C21, C22: default_from_dict and the parameters of the constructor *)

IsDefaultFromDictCall == call.op = "default_from_dict"
ParamNames(cls) == {Params(cls)[i] : i \in DOMAIN Params(cls)}
\* every parameter the tree has no key for declares a default
AbsentHaveDefaults(cls, obj) ==
    \A p \in ParamNames(cls) : ~HasCand(cls, obj, p) => ParamDefault(cls, p) # EmptyV

\* C21: default_from_dict sends each tree value whose un-mangled key equals a
\* constructor parameter name to that parameter, every parameter with no
\* matching key receives its declared default, and construction succeeds for
\* every subset of present keys for which all absent parameters declare a
\* default.
C21_ParameterRouting ==
    (/\ IsDefaultFromDictCall
     /\ call.cls \in {"P", "K", "H", "HI"}
     /\ AbsentHaveDefaults(call.cls, call.arg))
    => /\ call.res.st = "ok"
       /\ \A p \in ParamNames(call.cls) :
            Get(call.res.val, Stored(call.cls, p)) =
               IF HasCand(call.cls, call.arg, p) THEN Cand(call.cls, call.arg, p).val
               ELSE ParamDefault(call.cls, p)

\* C22: for a type whose constructor takes no parameters beyond self (an
\* empty __init__, or no __init__ at all), default_from_dict constructs the
\* instance with no arguments and then sets every key of the tree as an
\* attribute under its stored name.
C22_NoParameters ==
    (IsDefaultFromDictCall /\ call.cls \in {"EmptyInit", "NoInit"})
    => /\ call.res.st = "ok"
       /\ call.res.val = ObjV(call.cls, UpdateIn(InitAttrs(call.cls), call.arg.m))

-----------------------------------------------------------------------------
(* C23: the fields of a dataclass handed to the constructor and set after it *)

IsDataclassFromDictCall == call.op = "dataclass_from_dict"
\* the value dataclass_from_dict has for a field: the tree's, else the default
HasFieldValue(cls, obj, f) == KeyIn(obj.m, f) \/ default_value(cls, f).st = "ok"
FieldValue(cls, obj, f) == IF KeyIn(obj.m, f) THEN Get(obj, f) ELSE default_value(cls, f).val
InstanceFieldSet(cls) == {instance_fields(cls)[i] : i \in DOMAIN instance_fields(cls)}

\* C23: dataclass_from_dict passes exactly the fields accepted by the
\* constructor (init fields and InitVar pseudo-fields) to the constructor and
\* assigns every init=False field onto the instance after construction, so a
\* value present in the tree for an init=False field overrides the value
\* computed by __post_init__.
C23_DecodePartition ==
    (/\ IsDataclassFromDictCall
     /\ \A f \in InstanceFieldSet(call.cls) : HasFieldValue(call.cls, call.arg, f))
    => LET cls == call.cls
           obj == call.arg
           ins == call.res.val
       IN /\ call.res.st = "ok"
          /\ \A f \in InstanceFieldSet(cls) :
               IF FieldType(cls, f) = "_FIELD_INITVAR" THEN ~KeyIn(ins.m, f)
               ELSE Get(ins, f) = FieldValue(cls, obj, f)
          /\ \A e \in {ins.m[i] : i \in DOMAIN ins.m} : e.key \in InstanceFieldSet(cls)

\* the tree holds a post_init_value that __post_init__ does not compute
C23_Witness ==
    /\ IsDataclassFromDictCall
    /\ call.cls = "WithField"
    /\ call.res.st = "ok"
    /\ KeyIn(call.arg.m, "post_init_value")
    /\ Get(call.res.val, "post_init_value") = Get(call.arg, "post_init_value")
    /\ Get(call.res.val, "post_init_value") #
          IntSum(Get(call.res.val, "default_value"),
                 FieldValue("WithField", call.arg, "init_variable"))

-----------------------------------------------------------------------------
(* C26: decoding a namedtuple *)

IsNamedtupleFromDictCall == call.op = "namedtuple_from_dict"

\* C26: given a mapping, namedtuple_from_dict builds the tuple in declared
\* field order, taking each field's value from the mapping when present and
\* otherwise the field's declared default value itself; given a bare
\* sequence it builds the tuple positionally.
C26_NamedtupleDecode ==
    IsNamedtupleFromDictCall =>
       LET cls == call.cls
           obj == call.arg
           fields == NamedtupleFields(cls)
       IN /\ (/\ IsDict(obj)
              /\ \A i \in DOMAIN fields :
                   KeyIn(obj.m, fields[i]) \/ HasFieldDefault(cls, fields[i]))
             => call.res = Ok(ObjV(cls, [i \in DOMAIN fields |->
                               Item(fields[i],
                                    IF KeyIn(obj.m, fields[i]) THEN Get(obj, fields[i])
                                    ELSE NamedtupleDefault(cls, fields[i]))]))
          /\ (IsList(obj) /\ call.res.st = "ok")
             => \A i \in DOMAIN obj.m : call.res.val.m[i] = Item(fields[i], obj.m[i].val)

-----------------------------------------------------------------------------
(* C25: decoding against a tuple type *)

IsTupleCall == call.op = "from_dict" /\ call.cls.g = "tuple" /\ IsList(call.ins)
\* the declared element type of position i: Ti of Tuple[T1, ..., Tn], T of
\* Tuple[T, ...], Any of Tuple
ElementType(cls, i) ==
    IF cls.args = <<>> THEN "Any"
    ELSE IF Len(cls.args) = 2 /\ cls.args[2] = "..." THEN cls.args[1]
    ELSE cls.args[i]
Homogeneous(cls) == cls.args = <<>> \/ (Len(cls.args) = 2 /\ cls.args[2] = "...")
ElementsDecode(cls, obj, options, n) ==
    \A i \in 1..n : from_dict(obj.m[i].val, ClsT(ElementType(cls, i)), options).st = "ok"

\* C25: decoding a sequence against Tuple[T1, ..., Tn] yields a tuple with as
\* many elements as the input, element i decoded with Ti; decoding against
\* Tuple[T, ...] (or bare Tuple) yields a tuple of the input's length with
\* every element decoded with T. No input element is dropped.
C25_TupleDecode ==
    (/\ IsTupleCall
     /\ call.opts.recursively
     /\ ElementsDecode(call.cls, call.ins, call.opts,
                       IF Homogeneous(call.cls) THEN Len(call.ins.m)
                       ELSE IF Len(call.ins.m) < Len(call.cls.args) THEN Len(call.ins.m)
                       ELSE Len(call.cls.args)))
    => /\ call.res.st = "ok"
       /\ call.res.val.c = "tuple"
       /\ Len(call.res.val.m) = Len(call.ins.m)
       /\ \A i \in DOMAIN call.res.val.m :
            call.res.val.m[i].val =
               from_dict(call.ins.m[i].val, ClsT(ElementType(call.cls, i)), call.opts).val

-----------------------------------------------------------------------------
(* C28: a value that can be encoded but whose class cannot be named *)

\* the class is built-in, registered, a dataclass or an enum
Nameable(c) == IsBuiltinClass(c) \/ Registered(c) \/ IsDataclass(c) \/ IsEnum(c)
\* the strategy selection and the encoding of the items succeed and leave a mapping
EncodedAsMapping(ins, options) ==
    LET sel == SelectToDict(ins, options)
        rec == IF sel.st = "ok" /\ options.recursively
               THEN _items_to_dict(sel.val, options) ELSE sel
    IN sel.st = "ok" /\ rec.st = "ok" /\ IsDict(rec.val)

\* C28: with with_cls on, to_dict fails with UnableToDict when the encoded
\* result is a mapping and the instance's type is neither built-in,
\* registered, a dataclass nor an enum, even when the strategy selection
\* succeeded; this includes the pass-through of an instance of an
\* unregistered mapping subclass with strict off.
C28_UnnameableMapping ==
    (/\ IsToDictCall
     /\ call.opts.with_cls
     /\ ~Nameable(call.ins.c)
     /\ EncodedAsMapping(call.ins, call.opts))
    => /\ Raised("UnableToDict")
       /\ call.res.err.name = call.ins.c

\* the instance of the dict subclass is passed through with strict off and
\* the call still fails
C28_Witness ==
    /\ IsToDictCall
    /\ call.ins.c = "MyDict"
    /\ call.ins.m # <<>>
    /\ ~call.opts.strict
    /\ call.opts.with_cls
    /\ EncodedAsMapping(call.ins, call.opts)
    /\ Raised("UnableToDict")

-----------------------------------------------------------------------------
(* C29: a subclass of Dictable is encoded and decoded by its own methods *)

\* C29: for every subclass of Dictable, AutoDict.to_dict and
\* AutoDict.from_dict call the class's own _to_dict and _from_dict and never
\* the to_dict and from_dict functions of its registry entry, including the
\* functions passed as to_dict= or from_dict= at subclass creation; the
\* registry entry supplies only the name.
C29_OwnMethods ==
    /\ (IsToDictCall /\ IsDictableSubclass(call.ins.c))
       => LET own == default_to_dict(call.ins)
              rec == IF call.opts.recursively THEN _items_to_dict(own.val, call.opts) ELSE own
          IN IF rec.st = "err" THEN call.res.st = "err" /\ call.res.err = rec.err
             ELSE /\ call.res.st = "ok"
                  /\ call.res.val =
                       IF call.opts.with_cls
                       THEN SetKey(rec.val, CLS_ANNO_KEY, StrV(MetaOf(call.ins.c).name))
                       ELSE rec.val
    /\ IsFromDictCall
       => /\ \A i \in DOMAIN call.res.log :
               (call.res.log[i].ev = "strategy" /\ IsDictableSubclass(call.res.log[i].cls))
               => call.res.log[i].fn = "_from_dict"
          /\ LET sc == strip_class(call.ins, call.cls, call.opts)
                 it == IF call.opts.recursively
                       THEN _items_from_dict(sc.obj, sc.cls, call.opts)
                       ELSE FR("ok", sc.obj, NoErr, sc.obj, <<>>)
             IN (/\ sc.st = "ok"
                 /\ IsClsT(sc.cls)
                 /\ IsDictableSubclass(ClsOf(sc.cls))
                 /\ it.st = "ok")
                => LET own == default_from_dict(ClsOf(sc.cls), it.val)
                   IN /\ call.res.st = own.st
                      /\ call.res.val = own.val
                      /\ call.res.err = own.err

\* an instance of Custom, whose registry entry holds unable_to_dict and
\* unable_from_dict, is encoded under its registered name and decoded again
C29_Witness ==
    /\ IsFromDictCall
    /\ call.rt
    /\ call.src.c = "Custom"
    /\ MetaOf("Custom").to_dict = "unable_to_dict"
    /\ MetaOf("Custom").from_dict = "unable_from_dict"
    /\ HasKey(call.ins, CLS_ANNO_KEY)
    /\ Get(call.ins, CLS_ANNO_KEY) = StrV(MetaOf("Custom").name)
    /\ Succeeded
    /\ call.res.val = call.src

-----------------------------------------------------------------------------
(* C24: the tag is stripped, then the items are decoded, then the strategy runs *)

\* the declared type of the item under key in a tree decoded against t
ItemType(t, key) ==
    IF IsClsT(t) /\ (IsDataclass(ClsOf(t)) \/ is_annotated_class(t))
    THEN Annotation(ClsOf(t), key) ELSE NoneT
\* the decoding of item i of the stripped tree, on its own
ItemDecoded(obj, t, options, i) == from_dict(obj.m[i].val, ItemType(t, obj.m[i].key), options)
RECURSIVE ItemLogs(_, _, _, _)
\* the events of the items 1..n in order
ItemLogs(obj, t, options, n) ==
    IF n = 0 THEN <<>>
    ELSE ItemLogs(obj, t, options, n - 1) \o ItemDecoded(obj, t, options, n).log
\* the event of the strategy chosen for t on the tree handed to it
StrategyEvent(t, handed, options) ==
    LET fn == DecodeWith(t, handed, options).fn
    IN IF fn = "" THEN <<>>
       ELSE <<Ev("strategy", TypeName(t), fn, HasKey(handed, CLS_ANNO_KEY))>>
EnterEvent == Ev("enter", TypeName(call.cls), "", HasKey(call.ins, CLS_ANNO_KEY))
IsPlainTarget(t) == ~is_generic_union(t) /\ ~is_generic_collection(t)

\* C24: with recursively on, from_dict resolves and strips the type tag
\* first, then decodes every item of the tree, and only then invokes the
\* decode strategy of the enclosing type, so the strategy receives items that
\* are already decoded; with recursively off the strategy receives the items
\* untouched.
C24_DecodeOrdering ==
    IsFromDictCall =>
       LET sc == strip_class(call.ins, call.cls, call.opts)
           items == IF IsContainer(sc.obj) THEN DOMAIN sc.obj.m ELSE {}
           each(i) == ItemDecoded(sc.obj, sc.cls, call.opts, i)
           failing == {i \in items : each(i).st = "err"}
           first == CHOOSE i \in failing : \A j \in failing : i <= j
           handed == IF ~call.opts.recursively \/ ~IsContainer(sc.obj) THEN sc.obj
                     ELSE [sc.obj EXCEPT !.c = StableClass(sc.obj),
                                         !.m = [i \in items |-> Item(sc.obj.m[i].key, each(i).val)]]
           strategy == DecodeWith(sc.cls, handed, call.opts)
       IN (sc.st = "ok" /\ IsPlainTarget(sc.cls))
          => IF ~call.opts.recursively
             THEN /\ call.res.log = <<EnterEvent>> \o StrategyEvent(sc.cls, sc.obj, call.opts)
                  /\ call.res.st = strategy.st
                  /\ call.res.val = strategy.val
                  /\ call.res.err = strategy.err
             ELSE IF failing # {}
             THEN /\ call.res.st = "err"
                  /\ call.res.err = each(first).err
                  /\ call.res.log = <<EnterEvent>> \o ItemLogs(sc.obj, sc.cls, call.opts, first)
             ELSE /\ call.res.log = <<EnterEvent>>
                                      \o ItemLogs(sc.obj, sc.cls, call.opts, Cardinality(items))
                                      \o StrategyEvent(sc.cls, handed, call.opts)
                  /\ call.res.st = strategy.st
                  /\ call.res.val = strategy.val
                  /\ call.res.err = strategy.err

\* a tagged tree with a tagged item: the item's strategy has run before the
\* strategy of the enclosing General, which gets the decoded A
C24_Witness ==
    /\ IsFromDictCall
    /\ call.opts.recursively
    /\ HasKey(call.ins, CLS_ANNO_KEY)
    /\ Succeeded
    /\ call.res.val = Obj1("General", Obj1("A", IntV(1)))
    /\ Len(call.res.log) = 5
    /\ call.res.log[4].ev = "strategy" /\ call.res.log[4].cls = "A"
    /\ call.res.log[5] = Ev("strategy", "General", "_from_dict", FALSE)

-----------------------------------------------------------------------------
(* C30: what from_dict does to the tree it is given *)

RECURSIVE OnlyTagsDeleted(_, _)
\* after is before, except that mappings whose tag resolves may have lost
\* their '@' key
OnlyTagsDeleted(before, after) ==
    IF after = before THEN TRUE
    ELSE /\ after.c = before.c
         /\ after.s = before.s
         /\ IsContainer(before)
         /\ LET kept == IF /\ HasKey(before, CLS_ANNO_KEY)
                           /\ ~HasKey(after, CLS_ANNO_KEY)
                           /\ QueryHit(Get(before, CLS_ANNO_KEY).s)
                        THEN DelIn(before.m, CLS_ANNO_KEY) ELSE before.m
            IN /\ Len(after.m) = Len(kept)
               /\ \A i \in DOMAIN kept :
                    /\ after.m[i].key = kept[i].key
                    /\ OnlyTagsDeleted(kept[i].val, after.m[i].val)

C30_WitnessKept ==
    /\ IsFromDictCall
    /\ HasKey(call.ins, CLS_ANNO_KEY)
    /\ ~QueryHit(Get(call.ins, CLS_ANNO_KEY).s)
    /\ call.res.inp = call.ins

====
